---------------------------- MODULE Spec2Model ----------------------------
(***************************************************************************)
(* A model of the LS-GA production planner: chromosomes and solutions,     *)
(* the objective evaluators, constraint repair, the two local searches,    *)
(* NSGA-II sorting / crowding / selection, the Pareto archive, and the     *)
(* generation loop of LSGAAlgorithm.run with its reproduction operators.  *)
(*                                                                         *)
(* Arrays are functions over 0-based index sets, as in the source.         *)
(* Objective values are integers here: the instance below has integer      *)
(* costs, so a comparison `x < y - 1e-6` of the source is `x < y`.          *)
(***************************************************************************)
EXTENDS Integers, Sequences, FiniteSets, TLC

VARIABLES
  data,              \* the ProblemData instance the components were built with
  pc,                \* the position of the operation under way
  archive,           \* ParetoArchive.solutions
  archive_before,    \* ParetoArchive.solutions when the last update was called
  archive_seen,      \* every candidate ParetoArchive.update has been called with
  cand,              \* the argument of the last ParetoArchive.update
  inserted,          \* the value the last ParetoArchive.update returned
  pop,               \* the list passed to the NSGA2Selector methods
  target,            \* select's target_size
  sort_out,          \* what _nondominated_sort produced
  select_out,        \* what select produced
  crowd_out,         \* what _crowding_distance produced
  chrom,             \* the chromosome passed to repair / improve
  repaired,          \* what repair returned
  repaired_again,    \* what repair returned when called on its own result
  best,              \* improve's running best chromosome
  best_cost,         \* improve's best_cost
  best_instability,  \* WorkforceLocalSearch.improve's best_instability
  attempt,           \* ProductionLocalSearch.improve: attempts made so far
  pick,              \* ProductionLocalSearch.improve: the drawn (i, t1, t2)
  delta_idx,         \* ProductionLocalSearch.improve: position in the delta list
  period,            \* WorkforceLocalSearch.improve: t
  delta,             \* WorkforceLocalSearch.improve: delta
  config,            \* LSGAAlgorithm.config: the AlgorithmConfig fields run reads
  generation,        \* run: the loop variable
  run_population,    \* run: population
  offspring_chromosomes,  \* run: what _reproduce returned
  combined,          \* run: population + offspring
  pareto_history,    \* LSGAAlgorithm.pareto_history
  progress,          \* the calls of _report_progress: <<generation, pareto_front>>
  run_out,           \* what run returned
  tournament_size,   \* TournamentSelection.tournament_size
  tournament_out,    \* how TournamentSelection.select ended: [raised, solution]
  self_solution,     \* Solution.dominates: self
  other_solution,    \* Solution.dominates: other
  dominates_out,     \* what Solution.dominates returned
  evaluate_out,      \* the tuples ObjectiveEvaluator.evaluate returned, in call order
  init_size,         \* PopulationInitializer.initialize: population_size
  initialize_out,    \* what PopulationInitializer.initialize returned
  reproduce_offspring,  \* _reproduce: offspring
  reproduce_children,   \* _reproduce: <<child1, child2>> of the last pass, repaired
  op_parents,        \* the chromosomes passed to a crossover or mutation operator
  op_draw,           \* the values the operator's np.random.randint calls returned
  op_out             \* what the operator returned

archiveVars == <<archive, archive_before, archive_seen, cand, inserted>>
nsgaVars == <<pop, target, sort_out, select_out, crowd_out>>
repairVars == <<chrom, repaired, repaired_again>>
searchVars == <<best, best_cost, best_instability, attempt, pick, delta_idx, period, delta>>
runVars ==
  <<config, generation, run_population, offspring_chromosomes, combined, pareto_history,
    progress, run_out>>
callVars ==
  <<tournament_size, tournament_out, self_solution, other_solution, dominates_out,
    evaluate_out, init_size, initialize_out, reproduce_offspring, reproduce_children>>
operatorVars == <<op_parents, op_draw, op_out>>
vars ==
  <<data, pc, archiveVars, nsgaVars, repairVars, searchVars, runVars, callVars,
    operatorVars>>

(***************************************************************************)
(* Bounds of the model.                                                    *)
(***************************************************************************)
NumProducts == 1
NumPeriods == 2
\* The longest population passed to the NSGA2Selector methods.
MaxPop == 3

Products == 0 .. (NumProducts - 1)
Periods == 0 .. (NumPeriods - 1)

(***************************************************************************)
(* ProblemData: small instances with the fields of the source's           *)
(* dataclass.  They satisfy the checks of __post_init__ (shapes,           *)
(* min_workers <= initial_workers <= max_workers).                         *)
(***************************************************************************)
BaseData ==
  [ num_products |-> NumProducts,
    num_periods |-> NumPeriods,
    demand |-> [i \in Products |-> [t \in Periods |-> 5]],
    production_capacity |-> [i \in Products |-> [t \in Periods |-> 10]],
    inventory_capacity |-> [i \in Products |-> 5],
    unit_production_cost |-> [i \in Products |-> 10],
    unit_inventory_cost |-> [i \in Products |-> 1],
    hire_cost_per_worker |-> 1,
    fire_cost_per_worker |-> 2,
    wage_per_worker_per_period |-> 4,
    min_workers |-> 0,
    max_workers |-> 3,
    initial_workers |-> 3 ]

\* An instance with no demand in the even periods and no production
\* capacity in the odd ones: the odd periods are served from inventory.
TightData ==
  [BaseData EXCEPT
     !.demand = [i \in Products |-> [t \in Periods |-> IF t % 2 = 0 THEN 0 ELSE 5]],
     !.production_capacity =
        [i \in Products |-> [t \in Periods |-> IF t % 2 = 0 THEN 10 ELSE 0]]]

Instances == {BaseData, TightData}

\* An instance whose inventory capacity is below what one period can leave
\* in stock: a full period of production overfills the store.
ScarceStorageData ==
  [BaseData EXCEPT !.inventory_capacity = [i \in Products |-> 2]]

\* The penalty per unit of backlog or of inventory above capacity.
PenaltyPerUnit == 1000

(***************************************************************************)
(* Chromosome                                                              *)
(***************************************************************************)
Chromosome(production, workforce) ==
  [production |-> production, workforce |-> workforce]

\* Chromosome.__eq__: elementwise equality of both arrays.
ChromosomeEq(a, b) ==
  /\ \A i \in Products : \A t \in Periods : a.production[i][t] = b.production[i][t]
  /\ \A t \in Periods : a.workforce[t] = b.workforce[t]

Abs(x) == IF x < 0 THEN -x ELSE x
Min(a, b) == IF a <= b THEN a ELSE b
Max(a, b) == IF a >= b THEN a ELSE b
\* np.clip(x, lo, hi) = minimum(maximum(x, lo), hi)
Clip(x, lo, hi) == Min(Max(x, lo), hi)

(***************************************************************************)
(* CostEvaluator.evaluate (Z1)                                             *)
(***************************************************************************)
RECURSIVE ProdCostLoop(_, _)
\* (unit_production_cost.reshape(-1, 1) * P).sum(), cell k = t * I + i
ProdCostLoop(P, k) ==
  IF k = NumProducts * NumPeriods THEN 0
  ELSE LET t == k \div NumProducts
           i == k % NumProducts
       IN  data.unit_production_cost[i] * P[i][t] + ProdCostLoop(P, k + 1)

RECURSIVE HoldCostLoopClampExcess(_, _, _, _)
\* The mutant of HoldCostLoop that carries forward at most the inventory
\* capacity.
HoldCostLoopClampExcess(P, k, inv, hold_cost) ==
  IF k = NumProducts * NumPeriods THEN hold_cost
  ELSE LET t == k \div NumProducts
           i == k % NumProducts
           inv1 == inv[i] + P[i][t] - data.demand[i][t]
           backlog == inv1 < 0
           hold1 == IF backlog THEN hold_cost + PenaltyPerUnit * Abs(inv1) ELSE hold_cost
           inv2 == IF backlog THEN 0 ELSE inv1
           excess == inv2 > data.inventory_capacity[i]
           hold2 == IF excess
                    THEN hold1 + PenaltyPerUnit * (inv2 - data.inventory_capacity[i])
                    ELSE hold1
           inv3 == IF excess THEN data.inventory_capacity[i] ELSE inv2
           hold3 == hold2 + data.unit_inventory_cost[i] * inv3
       IN  HoldCostLoopClampExcess(P, k + 1, [inv EXCEPT ![i] = inv3], hold3)

RECURSIVE HoldCostLoop(_, _, _, _)
\* The loop `for t: for i:` over the running inventory, cell k = t * I + i.
HoldCostLoop(P, k, inv, hold_cost) ==
  IF k = NumProducts * NumPeriods THEN hold_cost
  ELSE LET t == k \div NumProducts
           i == k % NumProducts
           inv1 == inv[i] + P[i][t] - data.demand[i][t]
           backlog == inv1 < 0
           hold1 == IF backlog THEN hold_cost + PenaltyPerUnit * Abs(inv1) ELSE hold_cost
           inv2 == IF backlog THEN 0 ELSE inv1
           hold2 == IF inv2 > data.inventory_capacity[i]
                    THEN hold1 + PenaltyPerUnit * (inv2 - data.inventory_capacity[i])
                    ELSE hold1
           hold3 == hold2 + data.unit_inventory_cost[i] * inv2
       IN  HoldCostLoop(P, k + 1, [inv EXCEPT ![i] = inv2], hold3)

RECURSIVE WagesLoop(_, _)
\* W.sum() * wage_per_worker_per_period
WagesLoop(W, t) ==
  IF t = NumPeriods THEN 0
  ELSE W[t] * data.wage_per_worker_per_period + WagesLoop(W, t + 1)

RECURSIVE HireFireLoop(_, _, _)
HireFireLoop(W, t, prev_workers) ==
  IF t = NumPeriods THEN 0
  ELSE (IF W[t] > prev_workers
        THEN (W[t] - prev_workers) * data.hire_cost_per_worker
        ELSE (prev_workers - W[t]) * data.fire_cost_per_worker)
       + HireFireLoop(W, t + 1, W[t])

CostEvaluate(c) ==
  ProdCostLoop(c.production, 0)
  + HoldCostLoop(c.production, 0, [i \in Products |-> 0], 0)
  + WagesLoop(c.workforce, 0)
  + HireFireLoop(c.workforce, 0, data.initial_workers)

(***************************************************************************)
(* InstabilityEvaluator.evaluate (Z2)                                      *)
(***************************************************************************)
RECURSIVE InstabilityLoop(_, _, _)
InstabilityLoop(W, t, prev_workers) ==
  IF t = NumPeriods THEN 0
  ELSE Abs(W[t] - prev_workers) + InstabilityLoop(W, t + 1, W[t])

InstabilityEvaluate(c) == InstabilityLoop(c.workforce, 0, data.initial_workers)

\* ObjectiveEvaluator.evaluate: (Z1, Z2)
Evaluate(c) == <<CostEvaluate(c), InstabilityEvaluate(c)>>

\* The mutant of ObjectiveEvaluate that keeps the running inventory in the
\* production matrix instead of a local array.
ObjectiveEvaluateInPlace(c) ==
  [chromosome |-> Chromosome([i \in Products |-> [t \in Periods |->
                                Max(c.production[i][t] - data.demand[i][t], 0)]],
                             c.workforce),
   returned |-> Evaluate(c)]

\* A call of ObjectiveEvaluator.evaluate as a step: the chromosome as the
\* call leaves it and the tuple returned.  Both evaluators bind P and W and
\* only read them; `inv` is a fresh local array and self.data is only read.
ObjectiveEvaluate(c) == [chromosome |-> c, returned |-> Evaluate(c)]

(***************************************************************************)
(* Solution                                                                *)
(***************************************************************************)
\* ObjectiveEvaluator.create_solution
CreateSolution(c) == [chromosome |-> c, objectives |-> Evaluate(c)]

\* The mutant of Dominates without the strict part: no worse in both.
DominatesWeak(a, b) ==
  a.objectives[1] <= b.objectives[1] /\ a.objectives[2] <= b.objectives[2]

\* Solution.dominates (minimisation); objectives[1] is Z1, objectives[2] is Z2.
Dominates(a, b) ==
  /\ a.objectives[1] <= b.objectives[1] /\ a.objectives[2] <= b.objectives[2]
  /\ (a.objectives[1] < b.objectives[1] \/ a.objectives[2] < b.objectives[2])

\* Solution.__eq__: same objectives and same chromosome.
SolutionEq(a, b) ==
  a.objectives = b.objectives /\ ChromosomeEq(a.chromosome, b.chromosome)

(***************************************************************************)
(* Inputs: chromosomes built from two production values and two workforce  *)
(* values laid out alternately over the cells; with one product and two    *)
(* periods these are all the chromosomes over the value sets.              *)
(***************************************************************************)
Pattern(pa, pb, wa, wb) ==
  Chromosome([i \in Products |-> [t \in Periods |-> IF (i + t) % 2 = 0 THEN pa ELSE pb]],
             [t \in Periods |-> IF t % 2 = 0 THEN wa ELSE wb])

(***************************************************************************)
(* NSGA2Selector._nondominated_sort.  Lists are sequences (1-based): the   *)
(* source's index i is i + 1 here, and fronts[current_front] is            *)
(* fronts[current_front + 1].                                              *)
(***************************************************************************)
\* S[i]: the indices j # i with population[i].dominates(population[j]), ascending.
RECURSIVE DominatedList(_, _, _)
DominatedList(population, i, j) ==
  IF j > Len(population) THEN <<>>
  ELSE (IF j # i /\ Dominates(population[i], population[j]) THEN <<j>> ELSE <<>>)
       \o DominatedList(population, i, j + 1)

\* n[i]: the j # i taken by the `elif` branch (i does not dominate j, j dominates i).
DominationCount(population, i) ==
  Cardinality({j \in 1 .. Len(population) :
                 /\ j # i
                 /\ ~Dominates(population[i], population[j])
                 /\ Dominates(population[j], population[i])})

\* fronts[0]: population[i] appended, in index order, when n[i] == 0.
RECURSIVE FirstFront(_, _, _)
FirstFront(population, n, i) ==
  IF i > Len(population) THEN <<>>
  ELSE (IF n[i] = 0 THEN <<population[i]>> ELSE <<>>) \o FirstFront(population, n, i + 1)

\* population.index(sol_i): the first entry equal (Solution.__eq__) to sol_i.
IndexOf(population, sol) ==
  CHOOSE i \in 1 .. Len(population) :
    /\ SolutionEq(population[i], sol)
    /\ \A k \in 1 .. (i - 1) : ~SolutionEq(population[k], sol)

\* `for j in S[i]`: decrement n[j]; at zero append population[j] to next_front.
RECURSIVE PeelDominated(_, _, _, _, _)
PeelDominated(population, Si, k, n, next_front) ==
  IF k > Len(Si) THEN [n |-> n, next_front |-> next_front]
  ELSE LET j == Si[k]
           n1 == [n EXCEPT ![j] = n[j] - 1]
       IN  PeelDominated(population, Si, k + 1, n1,
                         IF n1[j] = 0 THEN Append(next_front, population[j])
                         ELSE next_front)

\* `for sol_i in fronts[current_front]`
RECURSIVE PeelFront(_, _, _, _, _, _)
PeelFront(population, S, front, k, n, next_front) ==
  IF k > Len(front) THEN [n |-> n, next_front |-> next_front]
  ELSE LET i == IndexOf(population, front[k])
           r == PeelDominated(population, S[i], 1, n, next_front)
       IN  PeelFront(population, S, front, k + 1, r.n, r.next_front)

NonEmptyFronts(fronts) == SelectSeq(fronts, LAMBDA f : f # <<>>)

\* `while fronts[current_front]:`  Evaluating the condition with
\* current_front == len(fronts) raises IndexError.
RECURSIVE PeelLoop(_, _, _, _, _)
PeelLoop(population, S, n, fronts, current_front) ==
  IF current_front + 1 > Len(fronts)
  THEN [raised |-> "IndexError", fronts |-> <<>>]
  ELSE IF fronts[current_front + 1] = <<>>
  THEN [raised |-> "none", fronts |-> NonEmptyFronts(fronts)]
  ELSE LET r == PeelFront(population, S, fronts[current_front + 1], 1, n, <<>>)
       IN  PeelLoop(population, S, r.n,
                    IF r.next_front # <<>> THEN Append(fronts, r.next_front)
                    ELSE fronts,
                    current_front + 1)

\* The result is [raised, fronts]: raised = "none" when the call returns fronts.
NondominatedSort(population) ==
  LET S == [i \in 1 .. Len(population) |-> DominatedList(population, i, 1)]
      n == [i \in 1 .. Len(population) |-> DominationCount(population, i)]
  IN  PeelLoop(population, S, n, <<FirstFront(population, n, 1)>>, 0)

(***************************************************************************)
(* NSGA2Selector._crowding_distance.  A distance is +infinity or the       *)
(* rational num / den (den > 0); the source's floats are taken as exact.   *)
(***************************************************************************)
Infinity == [inf |-> TRUE, num |-> 0, den |-> 1]
Finite(num, den) == [inf |-> FALSE, num |-> num, den |-> den]

\* What a division by zero leaves in place of a distance: Python raises
\* ZeroDivisionError for x / 0, and the call then returns no distances.
ZeroDivision == [inf |-> FALSE, num |-> 0, den |-> 0]

\* d + num / den; float('inf') + x is inf, and num / 0 raises.
DistAdd(d, num, den) ==
  IF den = 0 \/ d.den = 0 THEN ZeroDivision
  ELSE IF d.inf THEN d ELSE Finite(d.num * den + num * d.den, d.den * den)

\* d1 > d2 on floats with inf.
DistGreater(d1, d2) ==
  IF d1.inf THEN ~d2.inf
  ELSE IF d2.inf THEN FALSE
  ELSE d1.num * d2.den > d2.num * d1.den

DistEqual(d1, d2) == ~DistGreater(d1, d2) /\ ~DistGreater(d2, d1)

\* sorted(range(n), key=lambda i: front[i].objectives[obj_idx]): stable and
\* ascending, so entry i is placed after the entries with a smaller key and
\* after the earlier entries with an equal key.
SortedIndices(front, obj_idx) ==
  LET n == Len(front)
      key(i) == front[i].objectives[obj_idx]
      place(i) == 1 + Cardinality({j \in 1 .. n :
                                     key(j) < key(i) \/ (key(j) = key(i) /\ j < i)})
  IN  [p \in 1 .. n |-> CHOOSE i \in 1 .. n : place(i) = p]

\* `for i in range(1, n - 1)`: the interior positions p of sorted_indices.
RECURSIVE CrowdInterior(_, _, _, _, _, _)
CrowdInterior(front, obj_idx, sorted_indices, p, range, distances) ==
  IF p > Len(front) - 1 THEN distances
  ELSE LET idx == sorted_indices[p]
           prev_obj == front[sorted_indices[p - 1]].objectives[obj_idx]
           next_obj == front[sorted_indices[p + 1]].objectives[obj_idx]
       IN  CrowdInterior(front, obj_idx, sorted_indices, p + 1, range,
                         [distances EXCEPT
                            ![idx] = DistAdd(distances[idx], next_obj - prev_obj, range)])

\* The mutant of CrowdObjective that leaves the last sorted member finite.
CrowdObjectiveFirstOnly(front, obj_idx, distances) ==
  LET n == Len(front)
      sorted_indices == SortedIndices(front, obj_idx)
      d1 == [distances EXCEPT ![sorted_indices[1]] = Infinity]
      obj_min == front[sorted_indices[1]].objectives[obj_idx]
      obj_max == front[sorted_indices[n]].objectives[obj_idx]
  IN  IF obj_max = obj_min THEN d1
      ELSE CrowdInterior(front, obj_idx, sorted_indices, 2, obj_max - obj_min, d1)

\* The mutant of CrowdObjective without the `obj_max == obj_min` guard.
CrowdObjectiveUnguarded(front, obj_idx, distances) ==
  LET n == Len(front)
      sorted_indices == SortedIndices(front, obj_idx)
      d1 == [distances EXCEPT ![sorted_indices[1]] = Infinity]
      d2 == [d1 EXCEPT ![sorted_indices[n]] = Infinity]
      obj_min == front[sorted_indices[1]].objectives[obj_idx]
      obj_max == front[sorted_indices[n]].objectives[obj_idx]
  IN  CrowdInterior(front, obj_idx, sorted_indices, 2, obj_max - obj_min, d2)

\* One pass of `for obj_idx in range(2)` (obj_idx is 1 for Z1, 2 for Z2).
CrowdObjective(front, obj_idx, distances) ==
  LET n == Len(front)
      sorted_indices == SortedIndices(front, obj_idx)
      d1 == [distances EXCEPT ![sorted_indices[1]] = Infinity]
      d2 == [d1 EXCEPT ![sorted_indices[n]] = Infinity]
      obj_min == front[sorted_indices[1]].objectives[obj_idx]
      obj_max == front[sorted_indices[n]].objectives[obj_idx]
  IN  IF obj_max = obj_min THEN d2
      ELSE CrowdInterior(front, obj_idx, sorted_indices, 2, obj_max - obj_min, d2)

CrowdingDistance(front) ==
  IF Len(front) = 0 THEN <<>>
  ELSE CrowdObjective(front, 2,
         CrowdObjective(front, 1, [i \in 1 .. Len(front) |-> Finite(0, 1)]))

(***************************************************************************)
(* NSGA2Selector.select                                                    *)
(***************************************************************************)
\* sorted(zip(front, distances), key=distance, reverse=True): descending and
\* stable (reverse=True keeps the order of entries with equal keys).
SortedByDistance(front, distances) ==
  LET n == Len(front)
      place(i) == 1 + Cardinality({j \in 1 .. n :
                                     \/ DistGreater(distances[j], distances[i])
                                     \/ (DistEqual(distances[j], distances[i]) /\ j < i)})
  IN  [p \in 1 .. n |-> front[CHOOSE i \in 1 .. n : place(i) = p]]

\* `for front in fronts:` with its break.
RECURSIVE SelectLoop(_, _, _, _)
SelectLoop(fronts, f, target_size, new_population) ==
  IF f > Len(fronts) THEN new_population
  ELSE IF Len(new_population) + Len(fronts[f]) <= target_size
  THEN SelectLoop(fronts, f + 1, target_size, new_population \o fronts[f])
  ELSE LET remaining == target_size - Len(new_population)
           sorted_front == SortedByDistance(fronts[f], CrowdingDistance(fronts[f]))
       IN  new_population \o SubSeq(sorted_front, 1, remaining)

\* The result is [raised, population]; an exception of the sort propagates.
Select(population, target_size) ==
  LET sorted == NondominatedSort(population)
  IN  IF sorted.raised # "none"
      THEN [raised |-> sorted.raised, population |-> <<>>]
      ELSE [raised |-> "none",
            population |-> SelectLoop(sorted.fronts, 1, target_size, <<>>)]

(***************************************************************************)
(* ParetoArchive.update                                                    *)
(***************************************************************************)
\* The mutant of ArchiveUpdate without the duplicate test.
ArchiveUpdateNoDuplicateTest(solutions, candidate) ==
  IF \E k \in 1 .. Len(solutions) : Dominates(solutions[k], candidate)
  THEN [solutions |-> solutions, inserted |-> FALSE]
  ELSE [solutions |->
          Append(SelectSeq(solutions, LAMBDA sol : ~Dominates(candidate, sol)),
                 candidate),
        inserted |-> TRUE]

\* The mutant of ArchiveUpdate that inserts without pruning the members the
\* candidate dominates.
ArchiveUpdateNoPrune(solutions, candidate) ==
  IF \E k \in 1 .. Len(solutions) : SolutionEq(solutions[k], candidate)
  THEN [solutions |-> solutions, inserted |-> FALSE]
  ELSE IF \E k \in 1 .. Len(solutions) : Dominates(solutions[k], candidate)
  THEN [solutions |-> solutions, inserted |-> FALSE]
  ELSE [solutions |-> Append(solutions, candidate), inserted |-> TRUE]

\* The mutant of ArchiveUpdate that also prunes the members with the
\* candidate's objectives (no worse in both is taken for dominated).
ArchiveUpdatePruneWeak(solutions, candidate) ==
  IF \E k \in 1 .. Len(solutions) : SolutionEq(solutions[k], candidate)
  THEN [solutions |-> solutions, inserted |-> FALSE]
  ELSE IF \E k \in 1 .. Len(solutions) : Dominates(solutions[k], candidate)
  THEN [solutions |-> solutions, inserted |-> FALSE]
  ELSE [solutions |->
          Append(SelectSeq(solutions, LAMBDA sol : ~DominatesWeak(candidate, sol)),
                 candidate),
        inserted |-> TRUE]

\* The result is [solutions, inserted]: the new list and the returned flag.
ArchiveUpdate(solutions, candidate) ==
  IF \E k \in 1 .. Len(solutions) : SolutionEq(solutions[k], candidate)
  THEN [solutions |-> solutions, inserted |-> FALSE]
  ELSE IF \E k \in 1 .. Len(solutions) : Dominates(solutions[k], candidate)
  THEN [solutions |-> solutions, inserted |-> FALSE]
  ELSE [solutions |->
          Append(SelectSeq(solutions, LAMBDA sol : ~Dominates(candidate, sol)),
                 candidate),
        inserted |-> TRUE]

(***************************************************************************)
(* ConstraintRepair.repair                                                 *)
(***************************************************************************)
\* _repair_production_bounds: the two `if`s, cell by cell.
RepairProductionBounds(P) ==
  [i \in Products |-> [t \in Periods |->
     LET p1 == IF P[i][t] < 0 THEN 0 ELSE P[i][t]
     IN  IF p1 > data.production_capacity[i][t]
         THEN data.production_capacity[i][t]
         ELSE p1]]

\* The mutant of RepairInventoryLoop that covers a backlog in full, whatever
\* capacity is left in the period.
RECURSIVE RepairInventoryLoopUncapped(_, _, _)
RepairInventoryLoopUncapped(P, k, inv) ==
  IF k = NumProducts * NumPeriods THEN P
  ELSE LET t == k \div NumProducts
           i == k % NumProducts
           inv1 == inv[i] + P[i][t] - data.demand[i][t]
           over == inv1 > data.inventory_capacity[i]
           reduction == Min(inv1 - data.inventory_capacity[i], P[i][t])
           p1 == IF over THEN P[i][t] - reduction ELSE P[i][t]
           inv2 == IF over THEN inv1 - reduction ELSE inv1
           addition == -inv2
           p2 == IF inv2 < 0 THEN p1 + addition ELSE p1
           inv3 == IF inv2 < 0 THEN inv2 + addition ELSE inv2
       IN  RepairInventoryLoopUncapped([P EXCEPT ![i][t] = p2], k + 1,
                                       [inv EXCEPT ![i] = inv3])

\* The mutant of RepairInventoryLoop that lowers production for an excess
\* and leaves the running inventory as it was.
RECURSIVE RepairInventoryLoopStale(_, _, _)
RepairInventoryLoopStale(P, k, inv) ==
  IF k = NumProducts * NumPeriods THEN P
  ELSE LET t == k \div NumProducts
           i == k % NumProducts
           inv1 == inv[i] + P[i][t] - data.demand[i][t]
           over == inv1 > data.inventory_capacity[i]
           reduction == Min(inv1 - data.inventory_capacity[i], P[i][t])
           p1 == IF over THEN P[i][t] - reduction ELSE P[i][t]
           inv2 == inv1
           addition == Min(-inv2, data.production_capacity[i][t] - p1)
           p2 == IF inv2 < 0 THEN p1 + addition ELSE p1
           inv3 == IF inv2 < 0 THEN inv2 + addition ELSE inv2
       IN  RepairInventoryLoopStale([P EXCEPT ![i][t] = p2], k + 1,
                                    [inv EXCEPT ![i] = inv3])

\* _repair_inventory_constraints: the loop `for t: for i:`, cell k = t * I + i.
RECURSIVE RepairInventoryLoop(_, _, _)
RepairInventoryLoop(P, k, inv) ==
  IF k = NumProducts * NumPeriods THEN P
  ELSE LET t == k \div NumProducts
           i == k % NumProducts
           inv1 == inv[i] + P[i][t] - data.demand[i][t]
           over == inv1 > data.inventory_capacity[i]
           reduction == Min(inv1 - data.inventory_capacity[i], P[i][t])
           p1 == IF over THEN P[i][t] - reduction ELSE P[i][t]
           inv2 == IF over THEN inv1 - reduction ELSE inv1
           addition == Min(-inv2, data.production_capacity[i][t] - p1)
           p2 == IF inv2 < 0 THEN p1 + addition ELSE p1
           inv3 == IF inv2 < 0 THEN inv2 + addition ELSE inv2
       IN  RepairInventoryLoop([P EXCEPT ![i][t] = p2], k + 1,
                               [inv EXCEPT ![i] = inv3])

\* _repair_workforce_bounds: np.clip(W, min_workers, max_workers)
RepairWorkforceBounds(W) ==
  [t \in Periods |-> Clip(W[t], data.min_workers, data.max_workers)]

Repair(chromosome) ==
  Chromosome(RepairInventoryLoop(RepairProductionBounds(chromosome.production), 0,
                                 [i \in Products |-> 0]),
             RepairWorkforceBounds(chromosome.workforce))

(***************************************************************************)
(* ProductionLocalSearch.improve and WorkforceLocalSearch.improve          *)
(***************************************************************************)
\* production_ls_attempts: the attempts of one improve call.
Attempts == 2
\* workforce_ls_neighborhood
Neighborhood == 3
\* `for delta in [5, 10, -5, -10]`
ShiftDeltas == <<5, 10, -5, -10>>

\* The feasibility checks of a shift of d units from (i, t1) to (i, t2).
ShiftFeasible(P, i, t1, t2, d) ==
  /\ ~(P[i][t1] - d < 0 \/ P[i][t2] + d < 0)
  /\ ~(P[i][t1] - d > data.production_capacity[i][t1])
  /\ ~(P[i][t2] + d > data.production_capacity[i][t2])

\* The mutant of ShiftApply that takes the units out of (i, t1) and adds
\* them nowhere.
ShiftApplyOneSided(P, i, t1, t2, d) ==
  [P EXCEPT ![i] = [@ EXCEPT ![t1] = @ - d]]

\* P_new after `P_new[i, t1] -= delta; P_new[i, t2] += delta`
ShiftApply(P, i, t1, t2, d) ==
  [P EXCEPT ![i] = [@ EXCEPT ![t1] = @ - d, ![t2] = P[i][t2] + d]]

\* The mutant of ProductionAccepts with the comparison reversed.
ProductionAcceptsWorse(candidate_cost, current_cost) == candidate_cost > current_cost

\* `candidate_cost < best_cost - 1e-6`, on integers.
ProductionAccepts(candidate_cost, current_cost) == candidate_cost < current_cost

\* The mutant of WorkforceAccepts that drops the test on the instability.
WorkforceAcceptsAnyInstability(candidate_cost, candidate_instability, current_cost, current_instability) ==
  100 * candidate_cost <= 102 * current_cost

\* The mutant of WorkforceAccepts that drops the test on the cost.
WorkforceAcceptsAnyCost(candidate_cost, candidate_instability, current_cost, current_instability) ==
  candidate_instability < current_instability

\* `candidate_instability < best_instability - 1e-6 and
\*  candidate_cost <= best_cost * 1.02`, on integers.
WorkforceAccepts(candidate_cost, candidate_instability, current_cost, current_instability) ==
  /\ candidate_instability < current_instability
  /\ 100 * candidate_cost <= 102 * current_cost

\* `for delta in [5, 10, -5, -10]` from position k on, for the drawn
\* (i, t1, t2): what best is after the loop.
RECURSIVE ProductionDeltaLoop(_, _, _, _, _)
ProductionDeltaLoop(current, i, t1, t2, k) ==
  IF k > Len(ShiftDeltas) THEN current
  ELSE LET d == ShiftDeltas[k]
           candidate == Chromosome(ShiftApply(current.production, i, t1, t2, d),
                                   current.workforce)
       IN  IF /\ ShiftFeasible(current.production, i, t1, t2, d)
              /\ ProductionAccepts(CostEvaluate(candidate), CostEvaluate(current))
           THEN ProductionDeltaLoop(candidate, i, t1, t2, k + 1)
           ELSE ProductionDeltaLoop(current, i, t1, t2, k + 1)

\* ProductionLocalSearch.improve as a whole: the chromosomes it can return
\* when best is one of `currents` after `done` attempts.
RECURSIVE ProductionImprove(_, _)
ProductionImprove(currents, done) ==
  IF done = Attempts THEN currents
  ELSE ProductionImprove(
         { IF t1 = t2 THEN current ELSE ProductionDeltaLoop(current, i, t1, t2, 1) :
             current \in currents, i \in Products, t1 \in Periods, t2 \in Periods },
         done + 1)

\* WorkforceLocalSearch.improve as a whole, from period t and delta d on.
RECURSIVE WorkforceImprove(_, _, _)
WorkforceImprove(current, t, d) ==
  IF t = NumPeriods THEN current
  ELSE LET W_new == [current.workforce EXCEPT
                       ![t] = Clip(@ + d, data.min_workers, data.max_workers)]
           candidate == Chromosome(current.production, W_new)
           t_next == IF d < Neighborhood THEN t ELSE t + 1
           d_next == IF d < Neighborhood THEN d + 1 ELSE -Neighborhood
       IN  IF /\ d # 0
              /\ WorkforceAccepts(CostEvaluate(candidate),
                                  InstabilityEvaluate(candidate),
                                  CostEvaluate(current),
                                  InstabilityEvaluate(current))
           THEN WorkforceImprove(candidate, t_next, d_next)
           ELSE WorkforceImprove(current, t_next, d_next)

\* _apply_local_search from entry k on: the lists `refined` can end as.
RECURSIVE ApplyLocalSearch(_, _)
ApplyLocalSearch(chromosomes, k) ==
  IF k > Len(chromosomes) THEN {<<>>}
  ELSE { <<WorkforceImprove(ch, 0, -Neighborhood)>> \o rest :
           ch \in ProductionImprove({chromosomes[k]}, 0),
           rest \in ApplyLocalSearch(chromosomes, k + 1) }

(***************************************************************************)
(* The random draws.  A draw np.random.randint(low, high + 1) is taken     *)
(* from the two ends of its range, and np.random.rand() from AlphaDraws    *)
(* (numerator, denominator).                                               *)
(***************************************************************************)
Draw(low, high) == {low, high}
AlphaDraws == {<<0, 2>>, <<1, 2>>}

(***************************************************************************)
(* PopulationInitializer                                                   *)
(***************************************************************************)
\* _create_random_production from cell k = t * I + i on: the matrices the
\* loop can end with.
RECURSIVE CreateRandomProduction(_, _, _)
CreateRandomProduction(P, k, inv) ==
  IF k = NumProducts * NumPeriods THEN {P}
  ELSE LET t == k \div NumProducts
           i == k % NumProducts
           need == Max(0, data.demand[i][t] - inv[i])
           cap == data.production_capacity[i][t]
       IN  UNION { LET inv1 == inv[i] + p - data.demand[i][t]
                       over == inv1 > data.inventory_capacity[i]
                       reduce_by == Min(inv1 - data.inventory_capacity[i], p - need)
                       p2 == IF over THEN p - reduce_by ELSE p
                       inv2 == IF over THEN inv1 - reduce_by ELSE inv1
                   IN  CreateRandomProduction([P EXCEPT ![i][t] = p2], k + 1,
                                              [inv EXCEPT ![i] = inv2]) :
                   p \in IF need > cap THEN {cap} ELSE Draw(need, cap) }

\* _create_random_workforce
CreateRandomWorkforce == [Periods -> Draw(data.min_workers, data.max_workers)]

\* What one pass of initialize's loop can append.
InitialChromosomes ==
  { Repair(Chromosome(P, W)) :
      P \in CreateRandomProduction([i \in Products |-> [t \in Periods |-> 0]], 0,
                                   [i \in Products |-> 0]),
      W \in CreateRandomWorkforce }

\* The mutant of Initialize whose loop runs once more.
InitializeOneMore(population_size) == [1 .. population_size + 1 -> InitialChromosomes]

\* initialize(population_size): the lists it can return.
Initialize(population_size) == [1 .. population_size -> InitialChromosomes]

(***************************************************************************)
(* TournamentSelection.select, with tournament_size = 2: the solutions it  *)
(* can return.  random.sample draws two distinct positions.                *)
(***************************************************************************)
TournamentSelect(population) ==
  IF Len(population) = 1 THEN {population[1]}
  ELSE UNION { LET sol_a == population[ab[1]]
                   sol_b == population[ab[2]]
               IN  IF Dominates(sol_a, sol_b) THEN {sol_a}
                   ELSE IF Dominates(sol_b, sol_a) THEN {sol_b}
                   ELSE {sol_a, sol_b} :
               ab \in { xy \in (1 .. Len(population)) \X (1 .. Len(population)) :
                          xy[1] # xy[2] } }

\* The mutant of TournamentSelectionSelect that returns nothing, without an
\* error, when the sample is empty.
TournamentSelectionSelectQuiet(population, size) ==
  LET n == Len(population)
      k == Min(size, n)
  IN  IF k <= 0 THEN {[raised |-> "none", candidates |-> <<>>, returned |-> <<>>]}
      ELSE {[raised |-> "none", candidates |-> <<x>>, returned |-> <<population[x]>>] :
              x \in 1 .. n}

\* The mutant of TournamentSelectionSelect with the two dominance tests
\* exchanged: the dominated candidate wins.
TournamentSelectionSelectLoser(population, size) ==
  LET n == Len(population)
      k == Min(size, n)
  IN  IF k < 0 THEN {[raised |-> "ValueError", candidates |-> <<>>, returned |-> <<>>]}
      ELSE IF k = 0 THEN {[raised |-> "IndexError", candidates |-> <<>>, returned |-> <<>>]}
      ELSE IF k = 1
      THEN {[raised |-> "none", candidates |-> <<x>>, returned |-> <<population[x]>>] :
              x \in 1 .. n}
      ELSE UNION { LET sol_a == population[ab[1]]
                       sol_b == population[ab[2]]
                       Out(sol) == [raised |-> "none", candidates |-> ab, returned |-> <<sol>>]
                   IN  IF Dominates(sol_b, sol_a) THEN {Out(sol_a)}
                       ELSE IF Dominates(sol_a, sol_b) THEN {Out(sol_b)}
                       ELSE {Out(sol_a), Out(sol_b)} :
                   ab \in { xy \in (1 .. n) \X (1 .. n) : xy[1] # xy[2] } }

\* TournamentSelection.select for any tournament_size: the ways the call can
\* end, [raised, candidates, returned] with candidates the population
\* positions of candidates[0] and candidates[1] and returned the list of
\* the (at most one) solution returned.  random.sample(population, k)
\* raises ValueError for k < 0 and gives k members at distinct positions
\* otherwise, leaving population as it is; candidates[0] of an empty sample
\* raises IndexError.
TournamentSelectionSelect(population, size) ==
  LET n == Len(population)
      k == Min(size, n)
  IN  IF k < 0 THEN {[raised |-> "ValueError", candidates |-> <<>>, returned |-> <<>>]}
      ELSE IF k = 0 THEN {[raised |-> "IndexError", candidates |-> <<>>, returned |-> <<>>]}
      ELSE IF k = 1
      THEN {[raised |-> "none", candidates |-> <<x>>, returned |-> <<population[x]>>] :
              x \in 1 .. n}
      ELSE UNION { LET sol_a == population[ab[1]]
                       sol_b == population[ab[2]]
                       Out(sol) == [raised |-> "none", candidates |-> ab, returned |-> <<sol>>]
                   IN  IF Dominates(sol_a, sol_b) THEN {Out(sol_a)}
                       ELSE IF Dominates(sol_b, sol_a) THEN {Out(sol_b)}
                       ELSE {Out(sol_a), Out(sol_b)} :
                   ab \in { xy \in (1 .. n) \X (1 .. n) : xy[1] # xy[2] } }

(***************************************************************************)
(* The crossover and mutation operators: the results each can give.        *)
(***************************************************************************)
\* ParthenoProductionCrossover.crossover once i, t1 and t2 are drawn: the
\* two swaps on the copies P1 and P2, one after the other.
ParthenoCrossoverAt(parent1, parent2, i, t1, t2) ==
  LET P1a == [parent1.production EXCEPT ![i][t1] = parent2.production[i][t1]]
      P2a == [parent2.production EXCEPT ![i][t1] = parent1.production[i][t1]]
      P1b == [P1a EXCEPT ![i][t2] = P2a[i][t2]]
      P2b == [P2a EXCEPT ![i][t2] = P1a[i][t2]]
  IN  <<Chromosome(P1b, parent1.workforce), Chromosome(P2b, parent2.workforce)>>

\* ParthenoProductionCrossover.crossover: the results it can give.
ParthenoCrossover(parent1, parent2) ==
  { ParthenoCrossoverAt(parent1, parent2, i, t1, t2) :
      i \in Products, t1 \in Periods, t2 \in Periods }

\* np.round(n / d) for n >= 0, d > 0: to the nearest integer, a half to the
\* even one.
RoundHalfEven(n, d) ==
  LET q == n \div d
      r == n % d
  IN  IF 2 * r < d THEN q
      ELSE IF 2 * r > d THEN q + 1
      ELSE IF q % 2 = 0 THEN q ELSE q + 1

\* np.round(alpha * x + (1 - alpha) * y)
Blend(alpha, x, y) == RoundHalfEven(alpha[1] * x + (alpha[2] - alpha[1]) * y, alpha[2])

\* ArithmeticCrossover.crossover
ArithmeticCrossover(parent1, parent2) ==
  { <<Chromosome([i \in Products |-> [t \in Periods |->
                    Blend(alpha, parent1.production[i][t], parent2.production[i][t])]],
                 [t \in Periods |-> Blend(alpha, parent1.workforce[t], parent2.workforce[t])]),
      Chromosome([i \in Products |-> [t \in Periods |->
                    Blend(alpha, parent2.production[i][t], parent1.production[i][t])]],
                 [t \in Periods |-> Blend(alpha, parent2.workforce[t], parent1.workforce[t])])>> :
    alpha \in AlphaDraws }

\* ProductionMutation.mutate once i and t are drawn: the results it can
\* give.  With `low < high` false no value is drawn and the copy is
\* returned as it is.
ProductionMutateAt(chromosome, i, t) ==
  LET high == data.production_capacity[i][t]
  IN  IF 0 < high
      THEN { Chromosome([chromosome.production EXCEPT ![i][t] = v],
                        chromosome.workforce) : v \in Draw(0, high) }
      ELSE {chromosome}

\* ProductionMutation.mutate
ProductionMutate(chromosome) ==
  UNION { ProductionMutateAt(chromosome, i, t) : i \in Products, t \in Periods }

\* WorkforceMutation.mutate
WorkforceMutate(chromosome) ==
  { Chromosome(chromosome.production, [chromosome.workforce EXCEPT ![t] = v]) :
      t \in Periods, v \in Draw(data.min_workers, data.max_workers) }

(***************************************************************************)
(* LSGAAlgorithm._reproduce                                                *)
(***************************************************************************)
\* One pass of the while loop from the two parents on: the pairs
\* (child1, child2) after repair.  Each `random.random() < prob` test can go
\* either way; a crossover that fires overwrites both children from the
\* parents.
Children(parent1, parent2) ==
  LET copied == {<<parent1, parent2>>}
      partheno == copied \cup ParthenoCrossover(parent1, parent2)
      arithmetic == partheno \cup ArithmeticCrossover(parent1, parent2)
      mutated1 == arithmetic \cup
                    UNION { { <<m, c[2]>> : m \in ProductionMutate(c[1]) } : c \in arithmetic }
      mutated2 == mutated1 \cup
                    UNION { { <<c[1], m>> : m \in ProductionMutate(c[2]) } : c \in mutated1 }
      mutated3 == mutated2 \cup
                    UNION { { <<m, c[2]>> : m \in WorkforceMutate(c[1]) } : c \in mutated2 }
      mutated4 == mutated3 \cup
                    UNION { { <<c[1], m>> : m \in WorkforceMutate(c[2]) } : c \in mutated3 }
  IN  { <<Repair(c[1]), Repair(c[2])>> : c \in mutated4 }

\* The mutant of ReproduceAppend that always keeps both children.
ReproduceAppendBoth(offspring, c) == offspring \o <<c[1], c[2]>>

\* The end of one pass: child1 is appended, and child2 only while the list
\* is still short of population_size.
ReproduceAppend(offspring, c) ==
  LET with_child1 == Append(offspring, c[1])
  IN  IF Len(with_child1) < config.population_size
      THEN Append(with_child1, c[2])
      ELSE with_child1

\* `while len(offspring) < population_size`: the results [raised, offspring]
\* the loop can end with.  selection.select on an empty population raises
\* IndexError (candidates[0] of an empty sample).
RECURSIVE ReproduceLoop(_, _)
ReproduceLoop(population, offspring) ==
  IF ~(Len(offspring) < config.population_size)
  THEN {[raised |-> "none", offspring |-> offspring]}
  ELSE IF Len(population) = 0
  THEN {[raised |-> "IndexError", offspring |-> <<>>]}
  ELSE UNION { ReproduceLoop(population, ReproduceAppend(offspring, c)) :
               c \in UNION { Children(p[1].chromosome, p[2].chromosome) :
                             p \in TournamentSelect(population) \X
                                    TournamentSelect(population) } }

Reproduce(population) == ReproduceLoop(population, <<>>)

(***************************************************************************)
(* LSGAAlgorithm._update_archive, _extract_pareto_front and                *)
(* ParetoArchive.get_sorted                                                *)
(***************************************************************************)
\* `for solution in fronts[0]: self.archive.update(solution)` from entry k on.
RECURSIVE UpdateAll(_, _, _)
UpdateAll(solutions, front, k) ==
  IF k > Len(front) THEN solutions
  ELSE UpdateAll(ArchiveUpdate(solutions, front[k]).solutions, front, k + 1)

\* The result is [raised, solutions]: the archive's list after the call.
UpdateArchiveFrom(solutions, population) ==
  LET sorted == NondominatedSort(population)
  IN  IF sorted.raised # "none" THEN [raised |-> sorted.raised, solutions |-> solutions]
      ELSE [raised |-> "none",
            solutions |-> IF sorted.fronts # <<>>
                          THEN UpdateAll(solutions, sorted.fronts[1], 1)
                          ELSE solutions]

\* The result is [raised, front]: the (Z1, Z2) pairs of the first front.
ExtractParetoFront(population) ==
  LET sorted == NondominatedSort(population)
  IN  IF sorted.raised # "none" THEN [raised |-> sorted.raised, front |-> <<>>]
      ELSE [raised |-> "none",
            front |-> IF sorted.fronts # <<>>
                      THEN [k \in 1 .. Len(sorted.fronts[1]) |->
                              sorted.fronts[1][k].objectives]
                      ELSE <<>>]

\* sorted(self.solutions, key=lambda s: s.total_cost)
GetSorted(solutions) ==
  LET sorted_indices == SortedIndices(solutions, 1)
  IN  [p \in 1 .. Len(solutions) |-> solutions[sorted_indices[p]]]

(***************************************************************************)
(* The solutions the operations are applied to: evaluated chromosomes.     *)
(* On the instance above four of them are mutually non-dominated, two      *)
(* have equal objectives and different chromosomes, and the rest are       *)
(* dominated.                                                              *)
(***************************************************************************)
PoolChromosomes ==
  { Pattern(5, 5, 0, 0), Pattern(5, 5, 1, 1), Pattern(5, 5, 2, 2), Pattern(5, 5, 3, 3),
    Pattern(5, 5, 3, 2), Pattern(9, 1, 2, 2), Pattern(10, 0, 0, 0), Pattern(5, 5, 0, 3) }

SolutionPool == { CreateSolution(c) : c \in PoolChromosomes }

PopulationInputs == UNION { [1 .. n -> SolutionPool] : n \in 0 .. MaxPop }

\* A value for the variables an operation has not set.
None == "none"

ArchiveIdle ==
  /\ archive = <<>> /\ archive_before = <<>> /\ archive_seen = {}
  /\ cand = None /\ inserted = FALSE
NSGAIdle ==
  /\ pop = <<>> /\ target = 0
  /\ sort_out = None /\ select_out = None /\ crowd_out = None
RepairIdle == chrom = None /\ repaired = None /\ repaired_again = None
SearchIdle ==
  /\ best = None /\ best_cost = 0 /\ best_instability = 0
  /\ attempt = 0 /\ pick = None /\ delta_idx = 0 /\ period = 0 /\ delta = 0
RunIdle ==
  /\ config = None /\ generation = 0
  /\ run_population = <<>> /\ offspring_chromosomes = <<>> /\ combined = <<>>
  /\ pareto_history = <<>> /\ progress = <<>> /\ run_out = None
OperatorIdle == op_parents = None /\ op_draw = None /\ op_out = None
TournamentIdle == tournament_size = 0 /\ tournament_out = None
DominatesIdle == self_solution = None /\ other_solution = None /\ dominates_out = None
EvaluateIdle == evaluate_out = <<>>
InitializeIdle == init_size = 0 /\ initialize_out = None
ReproduceIdle == reproduce_offspring = <<>> /\ reproduce_children = None
CallIdle == TournamentIdle /\ DominatesIdle /\ EvaluateIdle /\ InitializeIdle /\ ReproduceIdle

(***************************************************************************)
(* The archive under a sequence of update calls.                           *)
(***************************************************************************)
InitArchive ==
  /\ data = BaseData
  /\ pc = "archive"
  /\ OperatorIdle /\ ArchiveIdle /\ NSGAIdle /\ RepairIdle /\ SearchIdle /\ RunIdle /\ CallIdle

UpdateArchive ==
  /\ pc = "archive"
  /\ \E c \in SolutionPool :
       LET r == ArchiveUpdate(archive, c)
       IN  /\ archive' = r.solutions
           /\ archive_before' = archive
           /\ archive_seen' = archive_seen \cup {c}
           /\ inserted' = r.inserted
           /\ cand' = c
  /\ UNCHANGED <<data, operatorVars, callVars, runVars, pc, nsgaVars, repairVars, searchVars>>

NextArchive == UpdateArchive

SpecArchive == InitArchive /\ [][NextArchive]_vars

(***************************************************************************)
(* The NSGA2Selector methods, each applied to a population.         *)
(***************************************************************************)
\* Mutually non-dominating members: what _crowding_distance is given.
IsFront(front) ==
  \A i, j \in 1 .. Len(front) : ~Dominates(front[i], front[j])

InitNSGA ==
  /\ data = BaseData
  /\ pc = "nsga"
  /\ OperatorIdle /\ ArchiveIdle /\ RepairIdle /\ SearchIdle /\ RunIdle /\ CallIdle
  /\ pop \in PopulationInputs
  /\ target = 0
  /\ sort_out = None /\ select_out = None /\ crowd_out = None

DoSort ==
  /\ pc = "nsga"
  /\ sort_out' = NondominatedSort(pop)
  /\ pc' = "sorted"
  /\ UNCHANGED <<data, operatorVars, callVars, runVars, archiveVars, repairVars, searchVars, pop, target, select_out, crowd_out>>

DoSelect ==
  /\ pc = "nsga"
  /\ \E k \in 0 .. 2 * MaxPop :
       /\ target' = k
       /\ select_out' = Select(pop, k)
  /\ pc' = "selected"
  /\ UNCHANGED <<data, operatorVars, callVars, runVars, archiveVars, repairVars, searchVars, pop, sort_out, crowd_out>>

DoCrowd ==
  /\ pc = "nsga"
  /\ IsFront(pop)
  /\ crowd_out' = CrowdingDistance(pop)
  /\ pc' = "crowded"
  /\ UNCHANGED <<data, operatorVars, callVars, runVars, archiveVars, repairVars, searchVars, pop, target, sort_out, select_out>>

NextNSGA == DoSort \/ DoSelect \/ DoCrowd

SpecNSGA == InitNSGA /\ [][NextNSGA]_vars

(***************************************************************************)
(* ConstraintRepair.repair applied to a chromosome, in or out of range.    *)
(***************************************************************************)
RawProduction == {-1, 0, 5, 10, 12}
RawWorkforce == {-1, 0, 2, 3, 4}
RawChromosomes ==
  { Pattern(pa, pb, wa, wb) : pa \in RawProduction, pb \in RawProduction,
                              wa \in RawWorkforce, wb \in RawWorkforce }

InitRepair ==
  /\ data \in Instances \cup {ScarceStorageData}
  /\ pc = "repair"
  /\ chrom \in RawChromosomes
  /\ repaired = None /\ repaired_again = None
  /\ OperatorIdle /\ ArchiveIdle /\ NSGAIdle /\ SearchIdle /\ RunIdle /\ CallIdle

DoRepair ==
  /\ pc = "repair"
  /\ repaired' = Repair(chrom)
  /\ pc' = "repaired"
  /\ UNCHANGED <<data, operatorVars, callVars, runVars, chrom, repaired_again, archiveVars,
                 nsgaVars, searchVars>>

\* repair called on the chromosome the first call returned.
RepairAgain ==
  /\ pc = "repaired"
  /\ repaired_again' = Repair(repaired)
  /\ pc' = "repaired_again"
  /\ UNCHANGED <<data, operatorVars, callVars, runVars, chrom, repaired, archiveVars,
                 nsgaVars, searchVars>>

NextRepair == DoRepair \/ RepairAgain

SpecRepair == InitRepair /\ [][NextRepair]_vars

(***************************************************************************)
(* One offspring chromosome from the end of _reproduce through             *)
(* _apply_local_search: the child is repaired, repair's result goes        *)
(* through ProductionLocalSearch.improve, and its result through           *)
(* WorkforceLocalSearch.improve.  chrom is the argument of the call under  *)
(* way.                                                                    *)
(***************************************************************************)
OffspringProduction == {0, 5, 10}
OffspringWorkforce == {0, 1, 2, 3}
\* The children the crossover and mutation operators hand to repair.
OffspringInputs ==
  { Pattern(pa, pb, wa, wb) :
      pa \in OffspringProduction, pb \in OffspringProduction,
      wa \in OffspringWorkforce, wb \in OffspringWorkforce }

InitSearch ==
  /\ data \in Instances
  /\ pc = "offspring"
  /\ chrom \in OffspringInputs
  /\ repaired = None /\ repaired_again = None
  /\ OperatorIdle /\ ArchiveIdle /\ NSGAIdle /\ SearchIdle /\ RunIdle /\ CallIdle

\* child = self.repair.repair(child), and _apply_local_search passes it to
\* production_ls.improve.
OffspringRepair ==
  /\ pc = "offspring"
  /\ chrom' = Repair(chrom)
  /\ pc' = "production_ls"
  /\ UNCHANGED <<data, operatorVars, callVars, runVars, archiveVars, nsgaVars, repaired, repaired_again, searchVars>>

\* best = chromosome.copy(); best_cost = cost_evaluator.evaluate(best)
ProductionBegin ==
  /\ pc = "production_ls"
  /\ best' = chrom
  /\ best_cost' = CostEvaluate(chrom)
  /\ attempt' = 0
  /\ pc' = "production_pick"
  /\ UNCHANGED <<data, operatorVars, callVars, runVars, archiveVars, nsgaVars, repairVars, best_instability, pick,
                 delta_idx, period, delta>>

\* One pass of `for _ in range(self.attempts)` up to the delta loop: the
\* three draws, and `continue` when t1 == t2.
ProductionPick ==
  /\ pc = "production_pick"
  /\ attempt < Attempts
  /\ \E i \in Products, t1 \in Periods, t2 \in Periods :
       IF t1 = t2
       THEN /\ attempt' = attempt + 1
            /\ UNCHANGED <<pc, pick, delta_idx>>
       ELSE /\ pick' = <<i, t1, t2>>
            /\ delta_idx' = 1
            /\ pc' = "production_try"
            /\ UNCHANGED attempt
  /\ UNCHANGED <<data, operatorVars, callVars, runVars, archiveVars, nsgaVars, repairVars, best, best_cost,
                 best_instability, period, delta>>

\* One pass of `for delta in [5, 10, -5, -10]`.
ProductionTry ==
  /\ pc = "production_try"
  /\ LET i == pick[1]
         t1 == pick[2]
         t2 == pick[3]
         d == ShiftDeltas[delta_idx]
         candidate == Chromosome(ShiftApply(best.production, i, t1, t2, d),
                                 best.workforce)
         candidate_cost == CostEvaluate(candidate)
     IN  IF /\ ShiftFeasible(best.production, i, t1, t2, d)
            /\ ProductionAccepts(candidate_cost, best_cost)
         THEN best' = candidate /\ best_cost' = candidate_cost
         ELSE UNCHANGED <<best, best_cost>>
  /\ IF delta_idx < Len(ShiftDeltas)
     THEN delta_idx' = delta_idx + 1 /\ UNCHANGED <<pc, attempt>>
     ELSE delta_idx' = 0 /\ attempt' = attempt + 1 /\ pc' = "production_pick"
  /\ UNCHANGED <<data, operatorVars, callVars, runVars, archiveVars, nsgaVars, repairVars, best_instability, pick,
                 period, delta>>

\* `return best`, and _apply_local_search passes it to workforce_ls.improve.
ProductionReturn ==
  /\ pc = "production_pick"
  /\ attempt = Attempts
  /\ chrom' = best
  /\ pc' = "workforce_ls"
  /\ UNCHANGED <<data, operatorVars, callVars, runVars, archiveVars, nsgaVars, repaired, repaired_again, searchVars>>

\* best = chromosome.copy(); best_cost, best_instability = evaluate(best)
WorkforceBegin ==
  /\ pc = "workforce_ls"
  /\ best' = chrom
  /\ best_cost' = CostEvaluate(chrom)
  /\ best_instability' = InstabilityEvaluate(chrom)
  /\ period' = 0
  /\ delta' = -Neighborhood
  /\ pc' = "workforce_try"
  /\ UNCHANGED <<data, operatorVars, callVars, runVars, archiveVars, nsgaVars, repairVars, attempt, pick, delta_idx>>

\* One pass of `for delta in range(-neighborhood, neighborhood + 1)` for the
\* period t, `continue` at delta == 0 included.
WorkforceTry ==
  /\ pc = "workforce_try"
  /\ period < NumPeriods
  /\ LET W_new == [best.workforce EXCEPT
                     ![period] = Clip(@ + delta, data.min_workers, data.max_workers)]
         candidate == Chromosome(best.production, W_new)
         candidate_cost == CostEvaluate(candidate)
         candidate_instability == InstabilityEvaluate(candidate)
     IN  IF /\ delta # 0
            /\ WorkforceAccepts(candidate_cost, candidate_instability,
                                best_cost, best_instability)
         THEN /\ best' = candidate
              /\ best_cost' = candidate_cost
              /\ best_instability' = candidate_instability
         ELSE UNCHANGED <<best, best_cost, best_instability>>
  /\ IF delta < Neighborhood
     THEN delta' = delta + 1 /\ UNCHANGED period
     ELSE delta' = -Neighborhood /\ period' = period + 1
  /\ UNCHANGED <<data, operatorVars, callVars, runVars, pc, archiveVars, nsgaVars, repairVars, attempt, pick, delta_idx>>

\* `return best`
WorkforceReturn ==
  /\ pc = "workforce_try"
  /\ period = NumPeriods
  /\ pc' = "refined"
  /\ UNCHANGED <<data, operatorVars, callVars, runVars, archiveVars, nsgaVars, repairVars, searchVars>>

NextSearch ==
  \/ OffspringRepair
  \/ ProductionBegin \/ ProductionPick \/ ProductionTry \/ ProductionReturn
  \/ WorkforceBegin \/ WorkforceTry \/ WorkforceReturn

SpecSearch == InitSearch /\ [][NextSearch]_vars

(***************************************************************************)
(* LSGAAlgorithm.run, from construction to its return or to the exception  *)
(* that ends it.                                                           *)
(***************************************************************************)
\* The largest population_size and max_generations of a run.
MaxPopulationSize == 1
MaxGenerations == 2
\* The plot_interval values of a run.
PlotIntervals == {1, 2}

Configs ==
  [population_size : 0 .. MaxPopulationSize,
   max_generations : 0 .. MaxGenerations,
   plot_interval : PlotIntervals]

InitRun ==
  /\ data \in Instances
  /\ pc = "run"
  /\ config \in Configs
  /\ generation = 0
  /\ run_population = <<>> /\ offspring_chromosomes = <<>> /\ combined = <<>>
  /\ pareto_history = <<>> /\ progress = <<>> /\ run_out = None
  /\ OperatorIdle /\ ArchiveIdle /\ NSGAIdle /\ RepairIdle /\ SearchIdle /\ CallIdle

\* chromosomes = initializer.initialize(population_size); population = the
\* solutions of the chromosomes; then the `for` statement's first test.
RunInitialize ==
  /\ pc = "run"
  /\ \E chromosomes \in Initialize(config.population_size) :
       run_population' = [k \in 1 .. Len(chromosomes) |-> CreateSolution(chromosomes[k])]
  /\ IF 1 <= config.max_generations
     THEN generation' = 1 /\ pc' = "reproduce"
     ELSE generation' = 0 /\ pc' = "return"
  /\ UNCHANGED <<data, operatorVars, callVars, archiveVars, nsgaVars, repairVars, searchVars, config,
                 offspring_chromosomes, combined, pareto_history, progress, run_out>>

\* offspring_chromosomes = self._reproduce(population)
RunReproduce ==
  /\ pc = "reproduce"
  /\ \E r \in Reproduce(run_population) :
       IF r.raised # "none"
       THEN pc' = "run_raised" /\ run_out' = r.raised /\ UNCHANGED offspring_chromosomes
       ELSE pc' = "local_search" /\ offspring_chromosomes' = r.offspring /\ UNCHANGED run_out
  /\ UNCHANGED <<data, operatorVars, callVars, archiveVars, nsgaVars, repairVars, searchVars, config, generation,
                 run_population, combined, pareto_history, progress>>

\* refined_chromosomes = self._apply_local_search(offspring_chromosomes);
\* offspring = their solutions; combined = population + offspring
RunLocalSearch ==
  /\ pc = "local_search"
  /\ \E refined \in ApplyLocalSearch(offspring_chromosomes, 1) :
       combined' = run_population \o
                     [k \in 1 .. Len(refined) |-> CreateSolution(refined[k])]
  /\ pc' = "select"
  /\ UNCHANGED <<data, operatorVars, callVars, archiveVars, nsgaVars, repairVars, searchVars, config, generation,
                 run_population, offspring_chromosomes, pareto_history, progress, run_out>>

\* population = self.nsga2_selector.select(combined, population_size)
RunSelect ==
  /\ pc = "select"
  /\ LET r == Select(combined, config.population_size)
     IN  IF r.raised # "none"
         THEN pc' = "run_raised" /\ run_out' = r.raised /\ UNCHANGED run_population
         ELSE pc' = "update_archive" /\ run_population' = r.population /\ UNCHANGED run_out
  /\ UNCHANGED <<data, operatorVars, callVars, archiveVars, nsgaVars, repairVars, searchVars, config, generation,
                 offspring_chromosomes, combined, pareto_history, progress>>

\* self._update_archive(combined)
RunUpdateArchive ==
  /\ pc = "update_archive"
  /\ LET r == UpdateArchiveFrom(archive, combined)
     IN  IF r.raised # "none"
         THEN pc' = "run_raised" /\ run_out' = r.raised /\ UNCHANGED archive
         ELSE pc' = "track" /\ archive' = r.solutions /\ UNCHANGED run_out
  /\ UNCHANGED <<data, operatorVars, callVars, archive_before, archive_seen, cand,
                 inserted, nsgaVars, repairVars,
                 searchVars, config, generation, run_population, offspring_chromosomes, combined,
                 pareto_history, progress>>

\* pareto_front = self._extract_pareto_front(combined); the append to
\* pareto_history; the progress report; the `for` statement's next test.
RunTrackHistory ==
  /\ pc = "track"
  /\ LET r == ExtractParetoFront(combined)
     IN  IF r.raised # "none"
         THEN /\ pc' = "run_raised" /\ run_out' = r.raised
              /\ UNCHANGED <<pareto_history, progress, generation>>
         ELSE /\ pareto_history' = Append(pareto_history, r.front)
              /\ progress' =
                   IF \/ generation % config.plot_interval = 0
                      \/ generation = 1
                      \/ generation = config.max_generations
                   THEN Append(progress, <<generation, r.front>>)
                   ELSE progress
              /\ IF generation + 1 <= config.max_generations
                 THEN generation' = generation + 1 /\ pc' = "reproduce"
                 ELSE UNCHANGED generation /\ pc' = "return"
              /\ UNCHANGED run_out
  /\ UNCHANGED <<data, operatorVars, callVars, archiveVars, nsgaVars, repairVars, searchVars, config,
                 run_population, offspring_chromosomes, combined>>

\* return archive_solutions, pareto_coords
RunReturn ==
  /\ pc = "return"
  /\ LET archive_solutions == GetSorted(archive)
     IN  run_out' = [archive_solutions |-> archive_solutions,
                     pareto_coords |-> [k \in 1 .. Len(archive_solutions) |->
                                          archive_solutions[k].objectives]]
  /\ pc' = "run_returned"
  /\ UNCHANGED <<data, operatorVars, callVars, archiveVars, nsgaVars, repairVars, searchVars, config, generation,
                 run_population, offspring_chromosomes, combined, pareto_history, progress>>

NextRun ==
  \/ RunInitialize \/ RunReproduce \/ RunLocalSearch \/ RunSelect
  \/ RunUpdateArchive \/ RunTrackHistory \/ RunReturn

SpecRun == InitRun /\ [][NextRun]_vars

(***************************************************************************)
(* TournamentSelection.select applied to a population, for each            *)
(* tournament size.                                                        *)
(***************************************************************************)
TournamentSizes == {-1, 0, 1, 2, 3}

InitTournament ==
  /\ data = BaseData
  /\ pc = "tournament"
  /\ OperatorIdle /\ ArchiveIdle /\ RepairIdle /\ SearchIdle /\ RunIdle
  /\ DominatesIdle /\ EvaluateIdle /\ InitializeIdle /\ ReproduceIdle
  /\ pop \in PopulationInputs
  /\ target = 0
  /\ sort_out = None /\ select_out = None /\ crowd_out = None
  /\ tournament_size \in TournamentSizes
  /\ tournament_out = None

DoTournament ==
  /\ pc = "tournament"
  /\ tournament_out' \in TournamentSelectionSelect(pop, tournament_size)
  /\ pc' = "tournament_done"
  /\ UNCHANGED <<data, operatorVars, archiveVars, nsgaVars, repairVars, searchVars, runVars,
                 tournament_size, self_solution, other_solution, dominates_out,
                 evaluate_out, init_size, initialize_out, reproduce_offspring,
                 reproduce_children>>

NextTournament == DoTournament

SpecTournament == InitTournament /\ [][NextTournament]_vars

(***************************************************************************)
(* Solution.dominates applied to a pair of solutions.                      *)
(***************************************************************************)
InitDominates ==
  /\ data = BaseData
  /\ pc = "dominates"
  /\ OperatorIdle /\ ArchiveIdle /\ NSGAIdle /\ RepairIdle /\ SearchIdle /\ RunIdle
  /\ TournamentIdle /\ EvaluateIdle /\ InitializeIdle /\ ReproduceIdle
  /\ self_solution \in SolutionPool
  /\ other_solution \in SolutionPool
  /\ dominates_out = None

DoDominates ==
  /\ pc = "dominates"
  /\ dominates_out' = Dominates(self_solution, other_solution)
  /\ pc' = "dominates_done"
  /\ UNCHANGED <<data, operatorVars, archiveVars, nsgaVars, repairVars, searchVars, runVars,
                 tournament_size, tournament_out, self_solution, other_solution,
                 evaluate_out, init_size, initialize_out, reproduce_offspring,
                 reproduce_children>>

NextDominates == DoDominates

SpecDominates == InitDominates /\ [][NextDominates]_vars

(***************************************************************************)
(* ObjectiveEvaluator.evaluate called repeatedly on one chromosome.        *)
(***************************************************************************)
EvaluateCalls == 2

InitEvaluate ==
  /\ data \in Instances
  /\ pc = "evaluate"
  /\ OperatorIdle /\ ArchiveIdle /\ NSGAIdle /\ SearchIdle /\ RunIdle
  /\ TournamentIdle /\ DominatesIdle /\ InitializeIdle /\ ReproduceIdle
  /\ chrom \in OffspringInputs
  /\ repaired = None /\ repaired_again = None
  /\ evaluate_out = <<>>

DoEvaluate ==
  /\ pc = "evaluate"
  /\ Len(evaluate_out) < EvaluateCalls
  /\ LET r == ObjectiveEvaluate(chrom)
     IN  /\ chrom' = r.chromosome
         /\ evaluate_out' = Append(evaluate_out, r.returned)
  /\ UNCHANGED <<data, operatorVars, pc, archiveVars, nsgaVars, repaired, repaired_again, searchVars, runVars,
                 tournament_size, tournament_out, self_solution, other_solution,
                 dominates_out, init_size, initialize_out, reproduce_offspring,
                 reproduce_children>>

NextEvaluate == DoEvaluate

SpecEvaluate == InitEvaluate /\ [][NextEvaluate]_vars

(***************************************************************************)
(* PopulationInitializer.initialize applied to a population size.          *)
(***************************************************************************)
InitializeSizes == {0, 1, 2}

InitInitialize ==
  /\ data \in Instances
  /\ pc = "initialize"
  /\ OperatorIdle /\ ArchiveIdle /\ NSGAIdle /\ RepairIdle /\ SearchIdle /\ RunIdle
  /\ TournamentIdle /\ DominatesIdle /\ EvaluateIdle /\ ReproduceIdle
  /\ init_size \in InitializeSizes
  /\ initialize_out = None

DoInitialize ==
  /\ pc = "initialize"
  /\ initialize_out' \in Initialize(init_size)
  /\ pc' = "initialize_done"
  /\ UNCHANGED <<data, operatorVars, archiveVars, nsgaVars, repairVars, searchVars, runVars,
                 tournament_size, tournament_out, self_solution, other_solution,
                 dominates_out, evaluate_out, init_size, reproduce_offspring,
                 reproduce_children>>

NextInitialize == DoInitialize

SpecInitialize == InitInitialize /\ [][NextInitialize]_vars

(***************************************************************************)
(* LSGAAlgorithm._reproduce on a non-empty population, one pass of its     *)
(* while loop per step.                                                    *)
(***************************************************************************)
MaxOffspring == 3

ReproducePopulations ==
  { <<CreateSolution(Pattern(5, 0, 1, 1))>>,
    <<CreateSolution(Pattern(5, 0, 1, 1)), CreateSolution(Pattern(5, 0, 2, 2))>> }

InitReproduce ==
  /\ data = TightData
  /\ pc = "reproduce_loop"
  /\ OperatorIdle /\ ArchiveIdle /\ NSGAIdle /\ RepairIdle /\ SearchIdle
  /\ TournamentIdle /\ DominatesIdle /\ EvaluateIdle /\ InitializeIdle /\ ReproduceIdle
  /\ config \in [population_size : 1 .. MaxOffspring, max_generations : {0},
                  plot_interval : {1}]
  /\ run_population \in ReproducePopulations
  /\ generation = 0
  /\ offspring_chromosomes = <<>> /\ combined = <<>>
  /\ pareto_history = <<>> /\ progress = <<>> /\ run_out = None

ReproducePass ==
  /\ pc = "reproduce_loop"
  /\ Len(reproduce_offspring) < config.population_size
  /\ \E parent1 \in TournamentSelect(run_population),
        parent2 \in TournamentSelect(run_population) :
       \E c \in Children(parent1.chromosome, parent2.chromosome) :
         /\ reproduce_children' = c
         /\ reproduce_offspring' = ReproduceAppend(reproduce_offspring, c)
  /\ UNCHANGED <<data, operatorVars, pc, archiveVars, nsgaVars, repairVars, searchVars, runVars,
                 tournament_size, tournament_out, self_solution, other_solution,
                 dominates_out, evaluate_out, init_size, initialize_out>>

ReproduceReturn ==
  /\ pc = "reproduce_loop"
  /\ ~(Len(reproduce_offspring) < config.population_size)
  /\ offspring_chromosomes' = reproduce_offspring
  /\ pc' = "reproduce_returned"
  /\ UNCHANGED <<data, operatorVars, callVars, archiveVars, nsgaVars, repairVars, searchVars, config,
                 generation, run_population, combined, pareto_history, progress, run_out>>

NextReproduce == ReproducePass \/ ReproduceReturn

SpecReproduce == InitReproduce /\ [][NextReproduce]_vars

(***************************************************************************)
(* ParthenoProductionCrossover.crossover and ProductionMutation.mutate,    *)
(* each applied to chromosomes that need not be repaired.                  *)
(***************************************************************************)
InitOperators ==
  /\ data \in Instances
  /\ pc = "operator"
  /\ ArchiveIdle /\ NSGAIdle /\ RepairIdle /\ SearchIdle /\ RunIdle /\ CallIdle
  /\ op_parents \in PoolChromosomes \X PoolChromosomes
  /\ op_draw = None
  /\ op_out = None

\* crossover(parent1, parent2); the parents are copied, not written.
DoParthenoCrossover ==
  /\ pc = "operator"
  /\ \E i \in Products, t1 \in Periods, t2 \in Periods :
       /\ op_draw' = <<i, t1, t2>>
       /\ op_out' = ParthenoCrossoverAt(op_parents[1], op_parents[2], i, t1, t2)
  /\ pc' = "crossed"
  /\ UNCHANGED <<data, op_parents, callVars, archiveVars, nsgaVars, repairVars,
                 searchVars, runVars>>

\* mutate(chromosome) on the first chromosome; it is copied, not written.
DoProductionMutate ==
  /\ pc = "operator"
  /\ \E i \in Products, t \in Periods :
       /\ op_draw' = <<i, t>>
       /\ op_out' \in ProductionMutateAt(op_parents[1], i, t)
  /\ pc' = "mutated"
  /\ UNCHANGED <<data, op_parents, callVars, archiveVars, nsgaVars, repairVars,
                 searchVars, runVars>>

NextOperators == DoParthenoCrossover \/ DoProductionMutate

SpecOperators == InitOperators /\ [][NextOperators]_vars

(***************************************************************************)
(* Claims                                                                  *)
(***************************************************************************)
\* C1: after any sequence of ParetoArchive.update calls from the empty
\* archive, no member dominates another and no two members are equal in
\* chromosome and objectives.
C1_ArchiveNonDominatedNoDuplicates ==
  \A i, j \in 1 .. Len(archive) :
    i # j => /\ ~Dominates(archive[i], archive[j])
             /\ ~SolutionEq(archive[i], archive[j])

\* An archive of three or more members, two of them with equal objectives
\* (and so different chromosomes), right after an insertion.
C1_Witness ==
  /\ Len(archive) >= 3
  /\ inserted
  /\ \E i, j \in 1 .. Len(archive) :
       i # j /\ archive[i].objectives = archive[j].objectives

\* The positions of the members of list that candidate does not dominate.
KeptPositions(list, candidate) ==
  {k \in 1 .. Len(list) : ~Dominates(candidate, list[k])}

\* The p-th smallest member of a set of numbers.
NthSmallest(S, p) == CHOOSE x \in S : Cardinality({y \in S : y < x}) = p - 1

\* C11: update(candidate) returns false and leaves the archive unchanged
\* exactly when some member equals the candidate (chromosome and objectives)
\* or dominates it; otherwise it returns true and the new archive is the old
\* one without the members the candidate dominates, the rest in their
\* order, with the candidate appended.
C11_UpdateRejectsOrPrunesAndAppends ==
  [][LET rejected == \E k \in 1 .. Len(archive) :
                       \/ SolutionEq(archive[k], cand')
                       \/ Dominates(archive[k], cand')
         kept == KeptPositions(archive, cand')
     IN  /\ inserted' = ~rejected
         /\ rejected => archive' = archive
         /\ ~rejected =>
              /\ Len(archive') = Cardinality(kept) + 1
              /\ archive'[Len(archive')] = cand'
              /\ \A p \in 1 .. Cardinality(kept) :
                   archive'[p] = archive[NthSmallest(kept, p)]]_vars

\* An insertion that removed a member from between two members that stay.
C11_Witness ==
  /\ inserted
  /\ Len(archive_before) >= 3
  /\ \E k \in 2 .. (Len(archive_before) - 1) :
       /\ Dominates(cand, archive_before[k])
       /\ ~Dominates(cand, archive_before[k - 1])
       /\ ~Dominates(cand, archive_before[k + 1])

\* The members of the fronts, front after front.
RECURSIVE Flatten(_)
Flatten(fs) == IF fs = <<>> THEN <<>> ELSE Head(fs) \o Flatten(Tail(fs))

\* How many entries of a list equal sol.
Occurrences(list, sol) == Cardinality({k \in 1 .. Len(list) : list[k] = sol})

\* C2: for any population, _nondominated_sort returns fronts in which every
\* population entry appears in exactly one front, exactly once, and no
\* member of the first front dominates another member of it.
C2_SortPartitionsPopulation ==
  pc = "sorted" =>
    /\ sort_out.raised = "none"
    /\ \A k \in 1 .. Len(pop) :
         Occurrences(Flatten(sort_out.fronts), pop[k]) = Occurrences(pop, pop[k])
    /\ Len(Flatten(sort_out.fronts)) = Len(pop)
    /\ (sort_out.fronts # <<>> => IsFront(sort_out.fronts[1]))

\* C3: for any finite population, empty or not, _nondominated_sort
\* terminates and returns its fronts without raising an error.
C3_SortReturnsWithoutError ==
  pc = "sorted" => sort_out.raised = "none"

\* C4: for any population and any target size k with 0 <= k <= 2 *
\* populationSize, select returns exactly min(k, len(pop)) solutions.
C4_SelectReturnsTargetSize ==
  pc = "selected" =>
    /\ select_out.raised = "none"
    /\ Len(select_out.population) = Min(target, Len(pop))

\* C5: a run with populationSize >= 1 and maxGenerations >= 1 returns (it
\* does not end in an exception), and the archive it returns is non-empty,
\* has no member that dominates another member, and has Z1 >= 0 and
\* Z2 >= 0 for every member.
C5_RunReturnsNonDominatedArchive ==
  (pc \in {"run_raised", "run_returned"}
     /\ config.population_size >= 1 /\ config.max_generations >= 1)
  => /\ pc = "run_returned"
     /\ LET returned == run_out.archive_solutions
        IN  /\ Len(returned) >= 1
            /\ \A i, j \in 1 .. Len(returned) : ~Dominates(returned[i], returned[j])
            /\ \A i \in 1 .. Len(returned) :
                 returned[i].objectives[1] >= 0 /\ returned[i].objectives[2] >= 0

Objective(front, obj_idx) == {front[i].objectives[obj_idx] : i \in 1 .. Len(front)}
SetMin(S) == CHOOSE x \in S : \A y \in S : x <= y
SetMax(S) == CHOOSE x \in S : \A y \in S : x >= y

\* C6 as stated: every member whose Z1 or Z2 equals the front's minimum or
\* maximum of that objective has crowding distance +infinity, members that
\* tie at a boundary value included.
C6_EveryBoundaryMemberInfinite ==
  pc = "crowded" =>
    \A i \in 1 .. Len(pop) : \A obj_idx \in 1 .. 2 :
      (\/ pop[i].objectives[obj_idx] = SetMin(Objective(pop, obj_idx))
       \/ pop[i].objectives[obj_idx] = SetMax(Objective(pop, obj_idx)))
      => crowd_out[i].inf

\* C6 as amended: _crowding_distance returns one distance per member, and
\* for each objective the first member (in front order) that attains the
\* front's minimum and the last member that attains its maximum have
\* crowding distance +infinity.
C6_FirstMinAndLastMaxInfinite ==
  pc = "crowded" =>
    /\ Len(crowd_out) = Len(pop)
    /\ \A i \in 1 .. Len(pop) : \A obj_idx \in 1 .. 2 :
         /\ (/\ pop[i].objectives[obj_idx] = SetMin(Objective(pop, obj_idx))
             /\ \A j \in 1 .. (i - 1) :
                  pop[j].objectives[obj_idx] # pop[i].objectives[obj_idx])
            => crowd_out[i].inf
         /\ (/\ pop[i].objectives[obj_idx] = SetMax(Objective(pop, obj_idx))
             /\ \A j \in (i + 1) .. Len(pop) :
                  pop[j].objectives[obj_idx] # pop[i].objectives[obj_idx])
            => crowd_out[i].inf

\* A front of three members that tie at the minimum Z1: the first and the
\* last are infinite and a tied member between them is finite.
C6_Witness ==
  /\ pc = "crowded"
  /\ Len(pop) = 3
  /\ crowd_out[1].inf /\ crowd_out[3].inf
  /\ \E i \in 1 .. 3 :
       /\ ~crowd_out[i].inf
       /\ pop[i].objectives[1] = SetMin(Objective(pop, 1))

InBounds(c) ==
  /\ \A i \in Products : \A t \in Periods :
       0 <= c.production[i][t] /\ c.production[i][t] <= data.production_capacity[i][t]
  /\ \A t \in Periods :
       data.min_workers <= c.workforce[t] /\ c.workforce[t] <= data.max_workers

\* C7: for any input chromosome, repair returns a chromosome with
\* 0 <= P[i,t] <= productionCapacity[i,t] for every product and period and
\* minWorkers <= W[t] <= maxWorkers for every period.
C7_RepairWithinBounds ==
  pc = "repaired" => InBounds(repaired)

\* Repair has returned for an input with negative and over-capacity
\* production and a workforce below and above the bounds.
C7_Witness ==
  /\ pc = "repaired"
  /\ \E i \in Products, t \in Periods : chrom.production[i][t] < 0
  /\ \E i \in Products, t \in Periods :
       chrom.production[i][t] > data.production_capacity[i][t]
  /\ \E t \in Periods : chrom.workforce[t] < data.min_workers
  /\ \E t \in Periods : chrom.workforce[t] > data.max_workers
  /\ repaired # chrom

\* C8 as stated: the chromosome WorkforceLocalSearch.improve returns has
\* Z1 <= 1.02 x (Z1 of the input chromosome).
C8_ReturnedCostWithinInput ==
  pc = "refined" => 100 * CostEvaluate(best) <= 102 * CostEvaluate(chrom)

\* C8 as amended: every candidate WorkforceLocalSearch.improve accepts has
\* Z1 <= 1.02 x (Z1 of the running best it replaces); over several accepted
\* moves the returned Z1 may exceed 1.02 x (Z1 of the input).
C8_AcceptedCostWithinRunningBest ==
  [][(pc = "workforce_try" /\ best' # best)
       => 100 * CostEvaluate(best') <= 102 * CostEvaluate(best)]_vars

\* improve has returned a chromosome whose Z1 is above 1.02 x the input's.
C8_Witness ==
  /\ pc = "refined"
  /\ 100 * CostEvaluate(best) > 102 * CostEvaluate(chrom)

\* C9: the chromosome WorkforceLocalSearch.improve returns has
\* Z2 <= (Z2 of the input chromosome), and a candidate with equal or worse
\* Z2 than the running best is never accepted.
C9_InstabilityNeverWorse ==
  [][/\ pc' \in {"workforce_try", "refined"}
          => InstabilityEvaluate(best') <= InstabilityEvaluate(chrom')
     /\ (pc = "workforce_try" /\ best' # best)
          => InstabilityEvaluate(best') < InstabilityEvaluate(best)]_vars

\* improve has returned a chromosome with a lower Z2 than its input.
C9_Witness ==
  /\ pc = "refined"
  /\ InstabilityEvaluate(best) < InstabilityEvaluate(chrom)

\* C10: the chromosome ProductionLocalSearch.improve returns has
\* Z1 <= (Z1 of the input chromosome) + 1e-6; the running best is replaced
\* only by a candidate whose Z1 is strictly lower, and is never reset.
C10_ProductionCostNeverWorse ==
  [][/\ pc' \in {"production_pick", "production_try"}
          => /\ CostEvaluate(best') <= CostEvaluate(chrom')
             /\ best_cost' = CostEvaluate(best')
     /\ (pc \in {"production_pick", "production_try"} /\ best' # best)
          => CostEvaluate(best') < CostEvaluate(best)]_vars

\* All attempts are made and the running best has a lower Z1 than the input.
C10_Witness ==
  /\ pc = "production_pick"
  /\ attempt = Attempts
  /\ CostEvaluate(best) < CostEvaluate(chrom)

\* The (Z1, Z2) pairs of the members of pool no member dominates, in pool
\* order: the first front of the pool.
FrontZeroCoords(pool) ==
  LET front == SelectSeq(pool, LAMBDA s : \A k \in 1 .. Len(pool) : ~Dominates(pool[k], s))
  IN  [k \in 1 .. Len(front) |-> front[k].objectives]

\* C12: a run with maxGenerations = G ends by returning after exactly G
\* generations, and pareto_history then holds exactly G snapshots, one
\* appended per generation, each the front-0 coordinates of that
\* generation's combined pool.
C12_RunEndsAfterAllGenerations ==
  /\ pc = "reproduce" => Len(pareto_history) = generation - 1
  /\ pc \in {"run_raised", "run_returned"} =>
       /\ pc = "run_returned"
       /\ generation = config.max_generations
       /\ Len(pareto_history) = config.max_generations
       /\ config.max_generations >= 1 =>
            pareto_history[config.max_generations] = FrontZeroCoords(combined)

\* C13: select on an empty population ends with an error and returns no
\* solution, whatever the tournament size.
C13_EmptyPopulationRaises ==
  pc = "tournament_done" /\ Len(pop) = 0 =>
    /\ tournament_out.raised \in {"IndexError", "ValueError"}
    /\ tournament_out.returned = <<>>

C13_Witness ==
  /\ pc = "tournament_done" /\ Len(pop) = 0 /\ tournament_size = 2
  /\ tournament_out.raised = "IndexError"

\* The generations of a run for which the progress report is due.
ReportDue ==
  {g \in 1 .. config.max_generations :
     g % config.plot_interval = 0 \/ g = 1 \/ g = config.max_generations}

\* C14: when the run has ended, the progress report has been invoked for
\* exactly the generations g that are a multiple of the interval, or 1, or
\* maxGenerations, once each and in order, each time with g and the
\* snapshot appended to the history for generation g.
C14_ReportedExactlyWhenDue ==
  pc \in {"run_raised", "run_returned"} =>
    /\ {progress[k][1] : k \in 1 .. Len(progress)} = ReportDue
    /\ Len(progress) = Cardinality(ReportDue)
    /\ \A k \in 1 .. Len(progress) :
         /\ progress[k][1] \in 1 .. Len(pareto_history)
         /\ progress[k][2] = pareto_history[progress[k][1]]
         /\ \A j \in 1 .. (k - 1) : progress[j][1] < progress[k][1]

\* C15: dominates returns false whenever the two solutions have the same
\* objectives: for a solution and itself, for an identical copy, and for a
\* solution with another chromosome and the same (Z1, Z2).
C15_DominanceIrreflexive ==
  pc = "dominates_done" /\ self_solution.objectives = other_solution.objectives =>
    dominates_out = FALSE

C15_Witness ==
  /\ pc = "dominates_done"
  /\ self_solution.objectives = other_solution.objectives
  /\ ~ChromosomeEq(self_solution.chromosome, other_solution.chromosome)
  /\ dominates_out = FALSE

C17_InitializeCountAndShapes ==
  pc = "initialize_done" =>
    /\ Len(initialize_out) = init_size
    /\ \A k \in 1 .. Len(initialize_out) :
         /\ DOMAIN initialize_out[k].production = Products
         /\ \A i \in Products : DOMAIN initialize_out[k].production[i] = Periods
         /\ DOMAIN initialize_out[k].workforce = Periods

C17_Witness ==
  /\ pc = "initialize_done"
  /\ init_size = 2
  /\ Len(initialize_out) = 2
  /\ initialize_out[1] # initialize_out[2]

\* C18: _crowding_distance returns one distance per front member and never
\* divides by zero; in a front whose members all share the value of an
\* objective (then, being mutually non-dominating, of both), every member
\* that is not a boundary member gets the distance 0.
C18_CrowdingNeverDividesByZero ==
  pc = "crowded" =>
    /\ Len(crowd_out) = Len(pop)
    /\ \A k \in 1 .. Len(crowd_out) : crowd_out[k] # ZeroDivision /\ crowd_out[k].den > 0
    /\ \A obj_idx \in {1, 2} :
         Len(pop) > 0 /\ SetMax(Objective(pop, obj_idx)) = SetMin(Objective(pop, obj_idx)) =>
           \A k \in 1 .. Len(crowd_out) : crowd_out[k].inf \/ crowd_out[k].num = 0

C18_Witness ==
  /\ pc = "crowded"
  /\ Len(pop) = 3
  /\ SetMax(Objective(pop, 1)) = SetMin(Objective(pop, 1))
  /\ crowd_out = <<Infinity, Finite(0, 1), Infinity>>

\* C19: at the start of every generation and after the last one the parent
\* population holds exactly populationSize solutions: the initial population
\* has populationSize members, every combined pool has 2 x populationSize
\* members, and selection leaves exactly populationSize survivors of it.
C19_PopulationSizeKept ==
  [][/\ pc' \in {"reproduce", "return", "run_returned"}
          => Len(run_population') = config.population_size
     /\ pc' = "select" => Len(combined') = 2 * config.population_size
     /\ pc = "select"
          => /\ pc' = "update_archive"
             /\ Len(run_population') = config.population_size]_vars

\* C20: on a non-empty population _reproduce returns exactly populationSize
\* offspring, whatever the random outcomes; the list ends with both
\* children of the last pass when populationSize is even and with its
\* first child alone, the second dropped, when populationSize is odd.
C20_ReproduceReturnsPopulationSize ==
  pc = "reproduce_returned" =>
    LET n == config.population_size
    IN  /\ Len(offspring_chromosomes) = n
        /\ n % 2 = 1 => offspring_chromosomes[n] = reproduce_children[1]
        /\ n % 2 = 0 => /\ offspring_chromosomes[n - 1] = reproduce_children[1]
                         /\ offspring_chromosomes[n] = reproduce_children[2]

C20_Witness ==
  /\ pc = "reproduce_returned"
  /\ config.population_size = 3
  /\ Len(offspring_chromosomes) = 3
  /\ offspring_chromosomes[3] = reproduce_children[1]
  /\ reproduce_children[2] # reproduce_children[1]
  /\ \A k \in 1 .. 3 : offspring_chromosomes[k] # reproduce_children[2]

\* C21: every generation reaches its archive step with the combined pool
\* it built, and after that step every front-0 member of the combined pool
\* (selected or not) is equal to or dominated by some archive member.
C21_ArchiveCoversCombinedFront ==
  [][/\ pc = "select" => pc' = "update_archive"
     /\ pc = "update_archive" =>
          /\ pc' = "track"
          /\ \A k \in 1 .. Len(combined) :
               (\A j \in 1 .. Len(combined) : ~Dominates(combined[j], combined[k])) =>
                 \E a \in 1 .. Len(archive') :
                   \/ SolutionEq(archive'[a], combined[k])
                   \/ Dominates(archive'[a], combined[k])]_vars

\* The rank of sol in pool by dominance alone: 0 when no member dominates
\* it, else one more than the greatest rank among the members dominating it.
RECURSIVE DominanceRank(_, _)
DominanceRank(pool, sol) ==
  LET above == {k \in 1 .. Len(pool) : Dominates(pool[k], sol)}
  IN  IF above = {} THEN 0
      ELSE 1 + SetMax({DominanceRank(pool, pool[k]) : k \in above})

\* The members of pool of rank r, in pool order.
RankFront(pool, r) == SelectSeq(pool, LAMBDA s : DominanceRank(pool, s) = r)

\* C22: select returns, and no returned solution has a strictly worse rank
\* than a solution left out; within the rank that is split, no omitted
\* member has a greater crowding distance than a returned one, and of two
\* members with equal distance the earlier one is the one returned.
C22_SelectByRankThenCrowding ==
  pc = "selected" =>
    /\ select_out.raised = "none"
    /\ LET returned == select_out.population
           Returned(s) == Occurrences(returned, s) > 0
           Omitted(s) == Occurrences(returned, s) < Occurrences(pop, s)
       IN  /\ \A i, j \in 1 .. Len(pop) :
                Returned(pop[i]) /\ Omitted(pop[j]) =>
                  DominanceRank(pop, pop[i]) <= DominanceRank(pop, pop[j])
           /\ \A r \in 0 .. Len(pop) :
                LET front == RankFront(pop, r)
                    distances == CrowdingDistance(front)
                IN  \A i, j \in 1 .. Len(front) :
                      Returned(front[i]) /\ Omitted(front[j]) /\ front[i] # front[j] =>
                        /\ ~DistGreater(distances[j], distances[i])
                        /\ DistEqual(distances[i], distances[j]) => i < j

\* C28: _nondominated_sort returns fronts whose ranks agree with dominance:
\* every member of a front after the first is dominated by a member of the
\* front before it, and no member is dominated by a member of its own
\* front or of a later one.
C28_FrontsConsistentWithDominance ==
  pc = "sorted" =>
    /\ sort_out.raised = "none"
    /\ LET fronts == sort_out.fronts
       IN  /\ \A f \in 2 .. Len(fronts) : \A k \in 1 .. Len(fronts[f]) :
                \E j \in 1 .. Len(fronts[f - 1]) : Dominates(fronts[f - 1][j], fronts[f][k])
           /\ \A f \in 1 .. Len(fronts) : \A g \in f .. Len(fronts) :
                \A k \in 1 .. Len(fronts[f]) : \A j \in 1 .. Len(fronts[g]) :
                  ~Dominates(fronts[g][j], fronts[f][k])

\* C27: after any sequence of update calls, every candidate ever passed to
\* update (inserted, rejected, or inserted and pruned later) is equal to
\* some archive member or dominated by one.
C27_ArchiveCoversEveryCandidate ==
  \A c \in archive_seen :
    \E k \in 1 .. Len(archive) :
      SolutionEq(archive[k], c) \/ Dominates(archive[k], c)

C27_Witness ==
  /\ inserted
  /\ Len(archive) >= 2
  /\ \E k \in 1 .. Len(archive_before) :
       /\ archive_before[k] \in archive_seen
       /\ Dominates(cand, archive_before[k])
       /\ \A j \in 1 .. Len(archive) : ~SolutionEq(archive[j], archive_before[k])
  /\ \E c \in archive_seen :
       \A j \in 1 .. Len(archive_before) : ~SolutionEq(archive_before[j], c) /\ c # cand

\* C23: for every drawn product row i and periods t1, t2 (also t1 = t2),
\* child 1 holds parent 2's production values at (i, t1) and (i, t2) and
\* child 2 holds parent 1's; every other production cell and the workforce
\* of each child are those of its own parent.
C23_ParthenoSwapsDrawnCells ==
  pc = "crossed" =>
    LET i == op_draw[1]
        drawn == {op_draw[2], op_draw[3]}
        parent1 == op_parents[1]
        parent2 == op_parents[2]
        child1 == op_out[1]
        child2 == op_out[2]
    IN  /\ \A t \in drawn :
             /\ child1.production[i][t] = parent2.production[i][t]
             /\ child2.production[i][t] = parent1.production[i][t]
        /\ \A j \in Products, t \in Periods :
             ~(j = i /\ t \in drawn) =>
               /\ child1.production[j][t] = parent1.production[j][t]
               /\ child2.production[j][t] = parent2.production[j][t]
        /\ child1.workforce = parent1.workforce
        /\ child2.workforce = parent2.workforce

\* C24: mutate returns a chromosome whose drawn cell (i, t) holds a value
\* in [0, capacity of the cell], also where that capacity is 0, and whose
\* other production cells and workforce are the input's; the input
\* chromosome is as it was.
C24_MutatedCellWithinCapacity ==
  [][pc' = "mutated" =>
       LET i == op_draw'[1]
           t == op_draw'[2]
           input == op_parents[1]
       IN  /\ op_out'.production[i][t] \in 0 .. data.production_capacity[i][t]
           /\ \A j \in Products, u \in Periods :
                ~(j = i /\ u = t) => op_out'.production[j][u] = input.production[j][u]
           /\ op_out'.workforce = input.workforce
           /\ op_parents' = op_parents]_vars

\* The sum of f over its (finite) domain restricted to S.
RECURSIVE SumOver(_, _)
SumOver(S, f) ==
  IF S = {} THEN 0
  ELSE LET x == CHOOSE y \in S : TRUE
       IN  f[x] + SumOver(S \ {x}, f)

\* The reference inventory of product i: what period t starts from after
\* period t - 1, a shortfall not carried and an excess carried whole.
RECURSIVE ReferenceCarried(_, _, _)
ReferenceCarried(c, i, t) ==
  IF t = 0 THEN 0
  ELSE Max(ReferenceCarried(c, i, t - 1) + c.production[i][t - 1] - data.demand[i][t - 1], 0)

\* The reference Z1: production cost, wages, hire / fire cost against the
\* previous period's workforce, shortfall and excess penalties and the
\* holding cost of what is carried.
ReferenceZ1(c) ==
  LET cells == Products \X Periods
      raw(i, t) == ReferenceCarried(c, i, t) + c.production[i][t] - data.demand[i][t]
      kept(i, t) == ReferenceCarried(c, i, t + 1)
      before(t) == IF t = 0 THEN data.initial_workers ELSE c.workforce[t - 1]
  IN  SumOver(cells, [x \in cells |->
                        data.unit_production_cost[x[1]] * c.production[x[1]][x[2]]])
      + SumOver(cells, [x \in cells |-> PenaltyPerUnit * Max(0 - raw(x[1], x[2]), 0)])
      + SumOver(cells, [x \in cells |->
                          PenaltyPerUnit
                            * Max(kept(x[1], x[2]) - data.inventory_capacity[x[1]], 0)])
      + SumOver(cells, [x \in cells |-> data.unit_inventory_cost[x[1]] * kept(x[1], x[2])])
      + SumOver(Periods, [t \in Periods |-> data.wage_per_worker_per_period * c.workforce[t]])
      + SumOver(Periods, [t \in Periods |->
                            data.hire_cost_per_worker * Max(c.workforce[t] - before(t), 0)
                            + data.fire_cost_per_worker * Max(before(t) - c.workforce[t], 0)])

\* C25: the Z1 that evaluate returns is the reference Z1 of the chromosome.
C25_CostEqualsReference ==
  \A k \in 1 .. Len(evaluate_out) : evaluate_out[k][1] = ReferenceZ1(chrom)

C25_Witness ==
  /\ Len(evaluate_out) >= 1
  /\ evaluate_out[1][1] = ReferenceZ1(chrom)
  /\ \E i \in Products :
       /\ ReferenceCarried(chrom, i, 1) > data.inventory_capacity[i]
       /\ ReferenceCarried(chrom, i, 1) + chrom.production[i][1] - data.demand[i][1] < 0
            \/ ReferenceCarried(chrom, i, 2) > data.inventory_capacity[i]

\* C26: with tournament size 2 and at least two solutions, select compares
\* the solutions at two distinct population positions and returns one of
\* the two, never one the other dominates; the population is as it was.
C26_TournamentOfTwo ==
  [][pc' = "tournament_done" /\ tournament_size = 2 /\ Len(pop) >= 2 =>
       LET out == tournament_out'
           a == out.candidates[1]
           b == out.candidates[2]
       IN  /\ out.raised = "none"
           /\ Len(out.candidates) = 2 /\ Len(out.returned) = 1
           /\ a \in 1 .. Len(pop) /\ b \in 1 .. Len(pop) /\ a # b
           /\ \/ out.returned[1] = pop[a] /\ ~Dominates(pop[b], pop[a])
              \/ out.returned[1] = pop[b] /\ ~Dominates(pop[a], pop[b])
           /\ pop' = pop]_vars

C26_Witness ==
  /\ pc = "tournament_done" /\ tournament_size = 2 /\ Len(pop) >= 2
  /\ tournament_out.raised = "none"
  /\ Dominates(pop[tournament_out.candidates[2]], pop[tournament_out.candidates[1]])
  /\ tournament_out.returned = <<pop[tournament_out.candidates[2]]>>

\* C29: ConstraintRepair.repair is idempotent on instances whose production
\* and inventory capacities are non-negative: repairing the chromosome a
\* first repair returned gives that chromosome back, in production and in
\* workforce.
C29_RepairIdempotent ==
  [][pc' = "repaired_again" =>
       /\ repaired_again'.production = repaired.production
       /\ repaired_again'.workforce = repaired.workforce]_vars

\* The second repair ran on a chromosome the first repair had changed in
\* workforce and, beyond the clamp to the bounds, in production.
C29_Witness ==
  /\ pc = "repaired_again"
  /\ repaired.production # RepairProductionBounds(chrom.production)
  /\ repaired.workforce # chrom.workforce
  /\ repaired_again = repaired

\* C30: ProductionLocalSearch.improve only moves production between periods
\* of one product: the chromosome it returns has the workforce of the input
\* and the input's total production per product, every cell that differs
\* from the input lies in [0, capacity], and the input chromosome is the
\* same at every step of the call.
C30_ProductionShiftFrame ==
  [][/\ (/\ pc \in {"production_ls", "production_pick", "production_try"}
         /\ pc' \in {"production_pick", "production_try"})
          => chrom' = chrom
     /\ (pc = "production_pick" /\ pc' = "workforce_ls")
          => LET returned == chrom'
             IN  /\ returned.workforce = chrom.workforce
                 /\ \A i \in Products :
                      SumOver(Periods, returned.production[i])
                        = SumOver(Periods, chrom.production[i])
                 /\ \A i \in Products : \A t \in Periods :
                      returned.production[i][t] # chrom.production[i][t]
                        => /\ 0 <= returned.production[i][t]
                           /\ returned.production[i][t]
                                <= data.production_capacity[i][t]]_vars

\* improve has gone through all its attempts and is about to return a
\* chromosome whose production differs from the input's.
C30_Witness ==
  /\ pc = "production_pick" /\ attempt = Attempts
  /\ best.production # chrom.production
  /\ best.workforce = chrom.workforce

====
